---------------------------- MODULE Spec2Model ----------------------------
(***************************************************************************)
(* Model of the relationship derivation engine of the family-tree          *)
(* application: the RelationshipResolver class                             *)
(* (src/utils/relationship-resolver.ts) over a snapshot of people and      *)
(* relationship edges, with the relationship kinds of the taxonomy         *)
(* (types/relationship.ts).                                                *)
(*                                                                         *)
(* A Person is modelled by the one field the resolver reads, its id; a     *)
(* Relationship by fromId, toId and type.  Identifiers and kinds are the   *)
(* strings of the program.                                                 *)
(***************************************************************************)
EXTENDS Naturals, Sequences, FiniteSets, TLC

VARIABLES
    people,         \* RelationshipResolver.people: the person sequence of the snapshot
    relationships,  \* RelationshipResolver.relationships: the edge sequence of the snapshot
    query,          \* the last query issued: [op, personId]
    result,         \* what that query returned
    log,            \* the queries a caller has issued to the resolver, with their results
    localStorage,   \* localStorage['family-tree:project']: the backup copy of the project
    file,           \* the content of family-tree.json in the selected folder
    saves           \* the saveProject calls started: [data, pc], pc the await reached

vars == <<people, relationships, query, result, log, localStorage, file, saves>>

\* The variables of the persistence layer (db/storage.ts).
storage == <<localStorage, file, saves>>

-----------------------------------------------------------------------------
(* Bounds of the model *)

\* Number of distinct person identifiers that occur in a snapshot.
MaxId == 3
\* Largest number of edges of a snapshot drawn over all eight kinds.
MaxRels == 2
\* Number of people of a genealogy snapshot, and its largest number of edges.
MaxKin == 4
MaxKinRels == 5
\* Largest number of edges of a snapshot whose queries are logged, and largest
\* number of queries logged.
MaxLogRels == 1
MaxCalls == 3
\* Largest number of edges of a project whose type strings are not validated.
MaxRawRels == 2
\* Largest number of relationships of the project the application edits.
MaxAppRels == 2
\* Largest number of people selected for a batch submission of the form.
MaxSelected == 2

-----------------------------------------------------------------------------
(* The taxonomy: enum RelationshipType and enum DerivedRelationshipType *)

Parent == "parent"
Spouse == "spouse"
Partner == "partner"
AdoptiveParent == "adoptive-parent"
StepParent == "step-parent"
Guardian == "guardian"
Godparent == "godparent"
Other == "other"

RelationshipType ==
    {Parent, Spouse, Partner, AdoptiveParent, StepParent, Guardian, Godparent, Other}

Child == "child"
Sibling == "sibling"
Grandparent == "grandparent"
Grandchild == "grandchild"

DerivedRelationshipType ==
    {Child, Sibling, Grandparent, Grandchild, "uncle", "aunt", "nephew", "niece",
     "cousin", "parent-in-law", "child-in-law", "sibling-in-law", "step-sibling"}

-----------------------------------------------------------------------------
(* The helpers of the taxonomy (utils/relationship-helpers.ts) *)

\* JavaScript values by type: a string, and a member inherited from
\* Object.prototype (a function, or the prototype object itself).
JSString(s) == [type |-> "string", value |-> s]
JSInherited(name) == [type |-> "inherited", value |-> name]

\* The own properties of the object literal `labels` of getRelationshipLabel.
labels ==
    (Parent :> "Parent") @@ (Spouse :> "Spouse") @@ (Partner :> "Partner")
    @@ (AdoptiveParent :> "Adoptive Parent") @@ (StepParent :> "Step-parent")
    @@ (Guardian :> "Guardian") @@ (Godparent :> "Godparent") @@ (Other :> "Other")
    @@ (Child :> "Child") @@ (Sibling :> "Sibling") @@ (Grandparent :> "Grandparent")
    @@ (Grandchild :> "Grandchild") @@ ("uncle" :> "Uncle") @@ ("aunt" :> "Aunt")
    @@ ("nephew" :> "Nephew") @@ ("niece" :> "Niece") @@ ("cousin" :> "Cousin")
    @@ ("parent-in-law" :> "Parent-in-law") @@ ("child-in-law" :> "Child-in-law")
    @@ ("sibling-in-law" :> "Sibling-in-law") @@ ("step-sibling" :> "Step-sibling")

\* The property names every object literal inherits from Object.prototype.
ObjectPrototype ==
    {"constructor", "toString", "toLocaleString", "valueOf", "hasOwnProperty",
     "isPrototypeOf", "propertyIsEnumerable", "__proto__", "__defineGetter__",
     "__defineSetter__", "__lookupGetter__", "__lookupSetter__"}

\* getRelationshipLabel(relationship): labels[relationship] || relationship.  The
\* property read finds an own property, else an inherited one, else undefined; a
\* label and an inherited member are truthy, undefined is not.
getRelationshipLabel(relationship) ==
    IF relationship \in DOMAIN labels
    THEN JSString(labels[relationship])
    ELSE IF relationship \in ObjectPrototype
    THEN JSInherited(relationship)
    ELSE JSString(relationship)

\* A bug of isParentChildRelationship: Guardian counts as a parent-type kind.
isParentChildRelationshipWithGuardian(type) ==
    type \in {Parent, AdoptiveParent, StepParent, Guardian}

\* isBidirectionalRelationship(type): [Spouse, Partner, Other].includes(type)
isBidirectionalRelationship(type) == type \in {Spouse, Partner, Other}

\* isParentChildRelationship(type): [Parent, AdoptiveParent, StepParent].includes(type)
isParentChildRelationship(type) == type \in {Parent, AdoptiveParent, StepParent}

-----------------------------------------------------------------------------
(* Values of the program *)

\* The i-th person identifier (a string, as Person.id is).
PersonId(i) == "p" \o ToString(i)

Ids == {PersonId(i) : i \in 1..MaxId}

\* A Person, reduced to the one field the resolver reads.
Person(id) == [id |-> id]

\* A Relationship, reduced to the fields the resolver reads.
Relationship(fromId, toId, type) == [fromId |-> fromId, toId |-> toId, type |-> type]

\* JavaScript's undefined (Array.prototype.find found nothing) and null.
Undefined == [undefined |-> TRUE]
Null == [null |-> TRUE]

\* No project has been saved: localStorage.getItem returns null and no folder has
\* been selected.
NothingSaved ==
    /\ localStorage = Null
    /\ file = Null
    /\ saves = <<>>

-----------------------------------------------------------------------------
(* Array helpers *)

\* this.people.find((p) => p.id === id): the first person with that id, or undefined
find(ppl, id) ==
    IF \E i \in 1..Len(ppl) : ppl[i].id = id
    THEN ppl[CHOOSE i \in 1..Len(ppl) :
                /\ ppl[i].id = id
                /\ \A j \in 1..(i - 1) : ppl[j].id # id]
    ELSE Undefined

\* .filter(Boolean) on an array of Person | undefined
filterBoolean(s) == SelectSeq(s, LAMBDA p : p # Undefined)

\* The concatenation of a sequence of sequences, in order (nested forEach + push).
RECURSIVE Flatten(_)
Flatten(ss) == IF ss = <<>> THEN <<>> ELSE Head(ss) \o Flatten(Tail(ss))

-----------------------------------------------------------------------------
(* class RelationshipResolver.  `this` is the resolver: [people, relationships] *)

\* constructor(people, relationships)
RelationshipResolver(ppl, rels) == [people |-> ppl, relationships |-> rels]

\* One entry of a query result: {person, relationship, isDerived}
Entry(person, relationship, isDerived) ==
    [person |-> person, relationship |-> relationship, isDerived |-> isDerived]

\* A bug of getParents: the people are filtered instead of the edges, so that the
\* parents come in the order of the people sequence, each once.
getParentsInPeopleOrder(this, personId) ==
    SelectSeq(this.people,
              LAMBDA p : \E i \in 1..Len(this.relationships) :
                  /\ this.relationships[i].toId = personId
                  /\ this.relationships[i].fromId = p.id
                  /\ this.relationships[i].type \in {Parent, AdoptiveParent, StepParent})

\* A bug of getParents: the fromId of each edge is returned as a person without
\* being looked up in this.people.
getParentsUnchecked(this, personId) ==
    LET filtered ==
            SelectSeq(this.relationships,
                      LAMBDA rel : /\ rel.toId = personId
                                   /\ \/ rel.type = Parent
                                      \/ rel.type = AdoptiveParent
                                      \/ rel.type = StepParent)
    IN  [i \in 1..Len(filtered) |-> Person(filtered[i].fromId)]

\* getParents(personId): the fromId people of the parent-type edges to personId
getParents(this, personId) ==
    LET filtered ==
            SelectSeq(this.relationships,
                      LAMBDA rel : /\ rel.toId = personId
                                   /\ \/ rel.type = Parent
                                      \/ rel.type = AdoptiveParent
                                      \/ rel.type = StepParent)
        mapped == [i \in 1..Len(filtered) |-> find(this.people, filtered[i].fromId)]
    IN  filterBoolean(mapped)

\* getChildren(personId): the toId people of the parent-type edges from personId
getChildren(this, personId) ==
    LET filtered ==
            SelectSeq(this.relationships,
                      LAMBDA rel : /\ rel.fromId = personId
                                   /\ \/ rel.type = Parent
                                      \/ rel.type = AdoptiveParent
                                      \/ rel.type = StepParent)
        mapped == [i \in 1..Len(filtered) |-> find(this.people, filtered[i].toId)]
    IN  filterBoolean(mapped)

\* A bug of getSiblings: the person itself is not skipped.
getSiblingsWithSelf(this, personId) ==
    LET parents == getParents(this, personId)
        hasCommonParent(person) ==
            LET personParents == getParents(this, person.id)
            IN  \E i \in 1..Len(parents) :
                    \E j \in 1..Len(personParents) :
                        personParents[j].id = parents[i].id
    IN  IF Len(parents) = 0
        THEN <<>>
        ELSE SelectSeq(this.people, LAMBDA person : hasCommonParent(person))

\* A bug of getSiblings: two people are siblings when their parents are the same
\* people, so that having no parents at all is a match.
getSiblingsSameParents(this, personId) ==
    LET parentIds(id) ==
            LET ps == getParents(this, id) IN {ps[i].id : i \in 1..Len(ps)}
    IN  SelectSeq(this.people,
                  LAMBDA person : /\ person.id # personId
                                  /\ parentIds(person.id) = parentIds(personId))

\* A bug of getSiblings: the children of each parent are collected, parent by
\* parent, so that a person who shares two parents is collected twice.
getSiblingsPerParent(this, personId) ==
    LET parents == getParents(this, personId)
    IN  Flatten([i \in 1..Len(parents) |->
                    SelectSeq(getChildren(this, parents[i].id),
                              LAMBDA child : child.id # personId)])

\* getSiblings(personId): the other people who share at least one parent
getSiblings(this, personId) ==
    LET parents == getParents(this, personId)
        hasCommonParent(person) ==
            LET personParents == getParents(this, person.id)
            IN  \E i \in 1..Len(parents) :
                    \E j \in 1..Len(personParents) :
                        personParents[j].id = parents[i].id
    IN  IF Len(parents) = 0
        THEN <<>>
        ELSE SelectSeq(this.people,
                       LAMBDA person : person.id # personId /\ hasCommonParent(person))

\* A bug of getSpouse: the last matching edge is taken instead of the first.
getSpouseLastMatch(this, personId) ==
    LET rels == this.relationships
        isSpouseRel(rel) ==
            /\ rel.fromId = personId \/ rel.toId = personId
            /\ rel.type = Spouse \/ rel.type = Partner
    IN  IF ~ \E i \in 1..Len(rels) : isSpouseRel(rels[i])
        THEN Null
        ELSE LET spouseRel == rels[CHOOSE i \in 1..Len(rels) :
                                      /\ isSpouseRel(rels[i])
                                      /\ \A j \in (i + 1)..Len(rels) : ~ isSpouseRel(rels[j])]
                 spouseId == IF spouseRel.fromId = personId
                             THEN spouseRel.toId
                             ELSE spouseRel.fromId
                 found == find(this.people, spouseId)
             IN  IF found # Undefined THEN found ELSE Null

\* getSpouse(personId): the counterpart of the first Spouse/Partner edge, or null
getSpouse(this, personId) ==
    LET rels == this.relationships
        isSpouseRel(rel) ==
            /\ rel.fromId = personId \/ rel.toId = personId
            /\ rel.type = Spouse \/ rel.type = Partner
    IN  IF ~ \E i \in 1..Len(rels) : isSpouseRel(rels[i])
        THEN Null
        ELSE LET spouseRel == rels[CHOOSE i \in 1..Len(rels) :
                                      /\ isSpouseRel(rels[i])
                                      /\ \A j \in 1..(i - 1) : ~ isSpouseRel(rels[j])]
                 spouseId == IF spouseRel.fromId = personId
                             THEN spouseRel.toId
                             ELSE spouseRel.fromId
                 found == find(this.people, spouseId)
             IN  IF found # Undefined THEN found ELSE Null

\* A bug of relationshipToShowFrom: the parent-type kinds are not re-expressed.
relationshipToShowFromRaw(type) == type

\* The switch of the fromId branch: the kind shown when personId is the edge's fromId.
relationshipToShowFrom(type) ==
    CASE type \in {Parent, AdoptiveParent, StepParent} -> Child
      [] type \in {Spouse, Partner, Other} -> type
      [] OTHER -> type

\* A bug of alreadyAdded: any earlier entry for the same person counts, whatever
\* its kind.
alreadyAddedAnyKind(results, person, type) ==
    \E k \in 1..Len(results) : results[k].person.id = person.id

\* results.some((r) => r.person.id === person.id && r.relationship === rel.type)
alreadyAdded(results, person, type) ==
    \E k \in 1..Len(results) :
        /\ results[k].person.id = person.id
        /\ results[k].relationship = type

\* A bug of explicitStep: an edge of a symmetric kind is skipped in the fromId
\* branch too, when an earlier entry lists the same person with the same kind.
explicitStepDedupBothWays(this, personId, rel, results) ==
    IF rel.fromId = personId
    THEN LET person == find(this.people, rel.toId)
         IN  IF person # Undefined
             THEN IF /\ rel.type \in {Spouse, Partner, Other}
                     /\ alreadyAdded(results, person, rel.type)
                  THEN results
                  ELSE Append(results,
                              Entry(person, relationshipToShowFrom(rel.type), FALSE))
             ELSE results
    ELSE IF rel.toId = personId
    THEN LET person == find(this.people, rel.fromId)
         IN  IF person # Undefined
             THEN IF /\ rel.type \in {Spouse, Partner, Other}
                     /\ alreadyAdded(results, person, rel.type)
                  THEN results
                  ELSE Append(results, Entry(person, rel.type, FALSE))
             ELSE results
    ELSE results

\* A bug of explicitStep: the toId branch is a second `if` instead of an `else if`,
\* so that an edge with fromId = toId = personId runs both branches.
explicitStepBothBranches(this, personId, rel, results) ==
    LET afterFrom ==
            IF rel.fromId = personId /\ find(this.people, rel.toId) # Undefined
            THEN Append(results,
                        Entry(find(this.people, rel.toId),
                              relationshipToShowFrom(rel.type), FALSE))
            ELSE results
        person == find(this.people, rel.fromId)
    IN  IF rel.toId = personId /\ person # Undefined
        THEN IF /\ rel.type \in {Spouse, Partner, Other}
                /\ alreadyAdded(afterFrom, person, rel.type)
             THEN afterFrom
             ELSE Append(afterFrom, Entry(person, rel.type, FALSE))
        ELSE afterFrom

\* A bug of explicitStep: in the toId branch Guardian and Godparent edges are
\* de-duplicated as the symmetric kinds are.
explicitStepGuardianDeduplicated(this, personId, rel, results) ==
    IF rel.fromId = personId
    THEN LET person == find(this.people, rel.toId)
         IN  IF person # Undefined
             THEN Append(results,
                         Entry(person, relationshipToShowFrom(rel.type), FALSE))
             ELSE results
    ELSE IF rel.toId = personId
    THEN LET person == find(this.people, rel.fromId)
         IN  IF person # Undefined
             THEN IF /\ rel.type \in {Spouse, Partner, Other, Guardian, Godparent}
                     /\ alreadyAdded(results, person, rel.type)
                  THEN results
                  ELSE Append(results, Entry(person, rel.type, FALSE))
             ELSE results
    ELSE results

\* The callback of the explicit pass (this.relationships.forEach): `results`
\* after edge `rel` has been handled.
explicitStep(this, personId, rel, results) ==
    IF rel.fromId = personId
    THEN LET person == find(this.people, rel.toId)
         IN  IF person # Undefined
             THEN Append(results,
                         Entry(person, relationshipToShowFrom(rel.type), FALSE))
             ELSE results
    ELSE IF rel.toId = personId
    THEN LET person == find(this.people, rel.fromId)
         IN  IF person # Undefined
             THEN CASE rel.type \in {Parent, AdoptiveParent, StepParent} ->
                         Append(results, Entry(person, rel.type, FALSE))
                    [] rel.type \in {Spouse, Partner, Other} ->
                         IF alreadyAdded(results, person, rel.type)
                         THEN results
                         ELSE Append(results, Entry(person, rel.type, FALSE))
                    [] rel.type \in {Guardian, Godparent} ->
                         Append(results, Entry(person, rel.type, FALSE))
                    [] OTHER ->
                         Append(results, Entry(person, rel.type, FALSE))
             ELSE results
    ELSE results

\* A bug of explicitPass: the edges are visited from the last to the first.
RECURSIVE explicitPassBackwards(_, _, _, _)
explicitPassBackwards(this, personId, i, results) ==
    IF i > Len(this.relationships)
    THEN results
    ELSE explicitPassBackwards(
             this, personId, i + 1,
             explicitStep(this, personId,
                          this.relationships[Len(this.relationships) - i + 1], results))

\* The explicit pass: the edges from the i-th on, folded over `results`.
RECURSIVE explicitPass(_, _, _, _)
explicitPass(this, personId, i, results) ==
    IF i > Len(this.relationships)
    THEN results
    ELSE explicitPass(this, personId, i + 1,
                      explicitStep(this, personId, this.relationships[i], results))

\* The suppression key `${id}-${kind}`
key(id, kind) == id \o "-" \o kind

\* A bug of derivedEntries: the entries are pushed with isDerived: false.
derivedEntriesAsExplicit(persons, kind) ==
    [i \in 1..Len(persons) |-> Entry(persons[i], kind, FALSE)]

\* results.push({person, relationship: kind, isDerived: true}) for each person of
\* a sequence, in order
derivedEntries(persons, kind) ==
    [i \in 1..Len(persons) |-> Entry(persons[i], kind, TRUE)]

\* The set explicitRelationships of getDerivedRelationships
explicitRelationships(this, personId) ==
    UNION { LET rel == this.relationships[i]
            IN  IF rel.fromId = personId
                THEN {key(rel.toId, rel.type)} \cup
                     (IF \/ rel.type = Parent
                         \/ rel.type = AdoptiveParent
                         \/ rel.type = StepParent
                      THEN {key(rel.toId, "child")}
                      ELSE {})
                ELSE IF rel.toId = personId
                THEN {key(rel.fromId, rel.type)}
                ELSE {}
          : i \in 1..Len(this.relationships) }

\* A bug of derivedSiblings: a sibling is suppressed as soon as any explicit edge
\* links it to personId, whatever the kind of that edge.
derivedSiblingsUnlessLinked(this, personId) ==
    LET linked ==
            {this.relationships[i].toId :
                i \in {j \in 1..Len(this.relationships) :
                          this.relationships[j].fromId = personId}}
            \cup {this.relationships[i].fromId :
                i \in {j \in 1..Len(this.relationships) :
                          this.relationships[j].toId = personId}}
    IN  derivedEntries(
            SelectSeq(getSiblings(this, personId),
                      LAMBDA sibling : sibling.id \notin linked),
            Sibling)

\* "Add siblings" of getDerivedRelationships
derivedSiblings(this, personId) ==
    LET explicit == explicitRelationships(this, personId)
    IN  derivedEntries(
            SelectSeq(getSiblings(this, personId),
                      LAMBDA sibling : key(sibling.id, "sibling") \notin explicit),
            Sibling)

\* A bug of derivedGrandparents: a grandparent is suppressed as soon as any explicit
\* edge links it to personId, whatever the kind of that edge.
derivedGrandparentsUnlessLinked(this, personId) ==
    LET linked ==
            {this.relationships[i].toId :
                i \in {j \in 1..Len(this.relationships) :
                          this.relationships[j].fromId = personId}}
            \cup {this.relationships[i].fromId :
                i \in {j \in 1..Len(this.relationships) :
                          this.relationships[j].toId = personId}}
        parents == getParents(this, personId)
    IN  Flatten([i \in 1..Len(parents) |->
                    derivedEntries(
                        SelectSeq(getParents(this, parents[i].id),
                                  LAMBDA grandparent : grandparent.id \notin linked),
                        Grandparent)])

\* "Add grandparents (parents of parents)" of getDerivedRelationships
derivedGrandparents(this, personId) ==
    LET explicit == explicitRelationships(this, personId)
        parents == getParents(this, personId)
    IN  Flatten([i \in 1..Len(parents) |->
                    derivedEntries(
                        SelectSeq(getParents(this, parents[i].id),
                                  LAMBDA grandparent :
                                      key(grandparent.id, "grandparent") \notin explicit),
                        Grandparent)])

\* A bug of derivedGrandchildren: a grandchild already pushed is not pushed again.
derivedGrandchildrenOnce(this, personId) ==
    LET children == getChildren(this, personId)
        all == Flatten([i \in 1..Len(children) |-> getChildren(this, children[i].id)])
        firsts == {k \in 1..Len(all) : \A j \in 1..(k - 1) : all[j].id # all[k].id}
        kept(n) == CHOOSE k \in firsts : Cardinality({j \in firsts : j < k}) = n - 1
    IN  derivedEntries([n \in 1..Cardinality(firsts) |-> all[kept(n)]], Grandchild)

\* "Add grandchildren (children of children)" of getDerivedRelationships
derivedGrandchildren(this, personId) ==
    LET children == getChildren(this, personId)
    IN  Flatten([i \in 1..Len(children) |->
                    derivedEntries(getChildren(this, children[i].id), Grandchild)])

\* getDerivedRelationships(personId)
getDerivedRelationships(this, personId) ==
    derivedSiblings(this, personId)
        \o derivedGrandparents(this, personId)
        \o derivedGrandchildren(this, personId)

\* A bug of getRelationshipsForPerson: personId is looked up first, and nothing is
\* returned for an identifier that names no person.
getRelationshipsForPersonIfPresent(this, personId) ==
    IF find(this.people, personId) = Undefined
    THEN <<>>
    ELSE explicitPass(this, personId, 1, <<>>) \o getDerivedRelationships(this, personId)

\* getRelationshipsForPerson(personId): the explicit pass, then the derived entries
getRelationshipsForPerson(this, personId) ==
    explicitPass(this, personId, 1, <<>>) \o getDerivedRelationships(this, personId)

-----------------------------------------------------------------------------
(* The application state (App.tsx): const [project, setProject] = useState(...) *)

\* A Person as the application stores it: the resolver's field and a field that
\* updatePerson can change.
AppPerson(id, displayName) == [id |-> id, displayName |-> displayName]

DisplayNames == {"Ann", "Bob"}

\* The kinds of the edges the application adds here: one parent-type kind and one
\* symmetric kind.
AppTypes == {Parent, Spouse}

\* The values generateId() returns for relationships.
RelationshipId(i) == "r" \o ToString(i)

RelationshipIds == {RelationshipId(i) : i \in 1..MaxAppRels}

\* createNewProject()
createNewProject == [people |-> <<>>, relationships |-> <<>>]

\* The project held by the application.
project == [people |-> people, relationships |-> relationships]

\* {...relationshipData, id: generateId()}, with the identifier generated
WithId(relationshipData, id) ==
    [id |-> id, fromId |-> relationshipData.fromId, toId |-> relationshipData.toId,
     type |-> relationshipData.type]

\* addPerson(person): the value given to setProject
addPerson(current, person) ==
    [current EXCEPT !.people = Append(@, person)]

\* addRelationship(relationshipData): the value given to setProject
addRelationship(current, relationshipData, id) ==
    [current EXCEPT !.relationships = Append(@, WithId(relationshipData, id))]

\* addRelationships(relationshipDataList): the value given to setProject
addRelationships(current, relationshipDataList, ids) ==
    [current EXCEPT !.relationships =
        @ \o [i \in 1..Len(relationshipDataList) |->
                 WithId(relationshipDataList[i], ids[i])]]

\* updatePerson(updatedPerson): the value given to setProject
updatePerson(current, updatedPerson) ==
    [current EXCEPT !.people =
        [i \in 1..Len(@) |-> IF @[i].id = updatedPerson.id THEN updatedPerson ELSE @[i]]]

\* A bug of deletePerson: the relationships of the person are left in place.
deletePersonOnly(current, personId) ==
    [current EXCEPT !.people = SelectSeq(@, LAMBDA p : p.id # personId)]

\* deletePerson(personId): the value given to setProject
deletePerson(current, personId) ==
    [current EXCEPT
        !.people = SelectSeq(@, LAMBDA p : p.id # personId),
        !.relationships =
            SelectSeq(@, LAMBDA r : r.fromId # personId /\ r.toId # personId)]

\* deleteRelationship(relationshipId): the value given to setProject
deleteRelationship(current, relationshipId) ==
    [current EXCEPT !.relationships = SelectSeq(@, LAMBDA r : r.id # relationshipId)]

\* PeopleManager.handleDeletePerson(personId), the dialog confirmed: the
\* relationships it passes to onDeleteRelationship, in order.
relationshipsToDelete(current, personId) ==
    SelectSeq(current.relationships,
              LAMBDA rel : rel.fromId = personId \/ rel.toId = personId)

\* The values handleDeletePerson gives to setProject, in order: one per
\* onDeleteRelationship call, then the one of onDeletePerson.  Every call computes
\* its value from the project of the render the handler belongs to.
handleDeletePerson(current, personId) ==
    LET toDelete == relationshipsToDelete(current, personId)
    IN  [i \in 1..Len(toDelete) |-> deleteRelationship(current, toDelete[i].id)]
            \o <<deletePerson(current, personId)>>

\* The "Manage" list of the people tab for the selected person: the explicit
\* entries of the resolver, each with the relationship record found for it, the
\* first one of the project that links the selected person and the entry's person.
manageList(current, selectedPersonId) ==
    LET allRelationships ==
            getRelationshipsForPerson(
                RelationshipResolver(current.people, current.relationships),
                selectedPersonId)
        explicit == SelectSeq(allRelationships, LAMBDA r : ~ r.isDerived)
        links(relationship, rel) ==
            \/ relationship.fromId = selectedPersonId /\ relationship.toId = rel.person.id
            \/ relationship.toId = selectedPersonId /\ relationship.fromId = rel.person.id
        originalRelationship(rel) ==
            LET rs == current.relationships
            IN  IF \E i \in 1..Len(rs) : links(rs[i], rel)
                THEN rs[CHOOSE i \in 1..Len(rs) :
                            /\ links(rs[i], rel)
                            /\ \A j \in 1..(i - 1) : ~ links(rs[j], rel)]
                ELSE Undefined
    IN  [k \in 1..Len(explicit) |->
            [rel |-> explicit[k],
             originalRelationship |-> originalRelationship(explicit[k])]]

\* The state after the setProject calls of one event: the last value given.
setProject(values) == values[Len(values)]

-----------------------------------------------------------------------------
(* Persistence (db/storage.ts) *)

\* The awaits of saveProject, in order, and its end.
SavePcs == <<"getFileHandle", "createWritable", "write", "close", "done">>

\* saveProject(data), up to its first await: the call as started.
saveProject(data) == [data |-> data, pc |-> SavePcs[1]]

\* The await that follows the await pc.
nextPc(pc) == SavePcs[(CHOOSE n \in 1..Len(SavePcs) : SavePcs[n] = pc) + 1]

-----------------------------------------------------------------------------
(* The relationship form (components/people/RelationshipForm.tsx) *)

\* The state of the form that handleSubmit reads.
FormState(fromId, toId, type, addBothParents, parent1Id, parent2Id) ==
    [fromId |-> fromId, toId |-> toId, type |-> type,
     addBothParents |-> addBothParents, parent1Id |-> parent1Id,
     parent2Id |-> parent2Id]

\* The props of the form that handleSubmit reads: the batch selection, and whether
\* onSubmitMultiple was given.
FormProps(selectedPeople, onSubmitMultiple) ==
    [selectedPeople |-> selectedPeople, onSubmitMultiple |-> onSubmitMultiple]

\* One call of a callback of the form, with the relationships it passes.
Call(fn, rels) == [fn |-> fn, relationships |-> rels]

\* if (onSubmitMultiple) onSubmitMultiple(relationships)
\* else relationships.forEach((rel) => onSubmit(rel))
submitAll(props, rels) ==
    IF props.onSubmitMultiple
    THEN <<Call("onSubmitMultiple", rels)>>
    ELSE [i \in 1..Len(rels) |-> Call("onSubmit", <<rels[i]>>)]

\* A bug of handleSubmit: the single mode does not compare fromId with toId.
singleModeUnchecked(form) ==
    IF form.fromId = "" \/ form.toId = ""
    THEN <<>>
    ELSE IF isParentChildRelationship(form.type)
    THEN <<Call("onSubmit", <<Relationship(form.toId, form.fromId, form.type)>>)>>
    ELSE <<Call("onSubmit", <<Relationship(form.fromId, form.toId, form.type)>>)>>

\* handleSubmit, "Handle single relationship scenario"
singleMode(form) ==
    IF form.fromId = "" \/ form.toId = ""
    THEN <<>>
    ELSE IF form.fromId = form.toId
    THEN <<>>
    ELSE IF isParentChildRelationship(form.type)
    THEN <<Call("onSubmit", <<Relationship(form.toId, form.fromId, form.type)>>)>>
    ELSE <<Call("onSubmit", <<Relationship(form.fromId, form.toId, form.type)>>)>>

\* handleSubmit, "Handle both parents scenario"
bothParentsMode(form, props) ==
    IF form.fromId = "" \/ form.parent1Id = "" \/ form.parent2Id = ""
    THEN <<>>
    ELSE IF \/ form.fromId = form.parent1Id
            \/ form.fromId = form.parent2Id
            \/ form.parent1Id = form.parent2Id
    THEN <<>>
    ELSE submitAll(props, <<Relationship(form.parent1Id, form.fromId, form.type),
                            Relationship(form.parent2Id, form.fromId, form.type)>>)

\* A bug of handleSubmit: the normal batch mode does not turn a parent-type
\* relationship around, so that each selected person becomes the parent.
batchModeUnflipped(form, props) ==
    LET bothParents == form.addBothParents /\ isParentChildRelationship(form.type)
        selected == props.selectedPeople
        rels ==
            IF bothParents
            THEN Flatten([i \in 1..Len(selected) |->
                     IF selected[i].id = form.parent1Id \/ selected[i].id = form.parent2Id
                     THEN <<>>
                     ELSE <<Relationship(form.parent1Id, selected[i].id, form.type),
                            Relationship(form.parent2Id, selected[i].id, form.type)>>])
            ELSE Flatten([i \in 1..Len(selected) |->
                     IF selected[i].id = form.toId
                     THEN <<>>
                     ELSE <<Relationship(selected[i].id, form.toId, form.type)>>])
    IN  IF bothParents /\ (form.parent1Id = "" \/ form.parent2Id = "")
        THEN <<>>
        ELSE IF ~ bothParents /\ form.toId = ""
        THEN <<>>
        ELSE IF Len(rels) > 0
        THEN submitAll(props, rels)
        ELSE <<>>

\* handleSubmit, "Handle batch mode"
batchMode(form, props) ==
    LET bothParents == form.addBothParents /\ isParentChildRelationship(form.type)
        selected == props.selectedPeople
        rels ==
            IF bothParents
            THEN Flatten([i \in 1..Len(selected) |->
                     IF selected[i].id = form.parent1Id \/ selected[i].id = form.parent2Id
                     THEN <<>>
                     ELSE <<Relationship(form.parent1Id, selected[i].id, form.type),
                            Relationship(form.parent2Id, selected[i].id, form.type)>>])
            ELSE Flatten([i \in 1..Len(selected) |->
                     IF selected[i].id = form.toId
                     THEN <<>>
                     ELSE IF isParentChildRelationship(form.type)
                     THEN <<Relationship(form.toId, selected[i].id, form.type)>>
                     ELSE <<Relationship(selected[i].id, form.toId, form.type)>>])
    IN  IF bothParents /\ (form.parent1Id = "" \/ form.parent2Id = "")
        THEN <<>>
        ELSE IF ~ bothParents /\ form.toId = ""
        THEN <<>>
        ELSE IF Len(rels) > 0
        THEN submitAll(props, rels)
        ELSE <<>>

\* handleSubmit(): the calls of onSubmit and onSubmitMultiple it makes, in order
handleSubmit(form, props) ==
    IF form.type = ""
    THEN <<>>
    ELSE IF Len(props.selectedPeople) > 0
    THEN batchMode(form, props)
    ELSE IF form.addBothParents /\ isParentChildRelationship(form.type)
    THEN bothParentsMode(form, props)
    ELSE singleMode(form)

\* The values the calls of the form give to setProject through the people tab:
\* onSubmit is onAddRelationship and onSubmitMultiple is onAddRelationships, each
\* computing its value from the project of the render the form belongs to.
submitted(current, calls, ids) ==
    [c \in 1..Len(calls) |->
        IF calls[c].fn = "onSubmitMultiple"
        THEN addRelationships(current, calls[c].relationships, ids)
        ELSE addRelationship(current, calls[c].relationships[1], ids[c])]

-----------------------------------------------------------------------------
(* The snapshots a resolver is constructed over *)

\* The sequences over S of length at most n.
SeqUpTo(S, n) == UNION {[1..k -> S] : k \in 0..n}

\* The person sequences: the first n identifiers, each once (Person.id is unique).
\* The identifiers beyond the n-th name no person: an edge that uses one dangles.
PeopleInputs == {[i \in 1..n |-> Person(PersonId(i))] : n \in 0..MaxId}

\* Every edge over the identifiers and the eight explicit kinds, self-edges included.
AllEdges == {Relationship(f, t, k) : f \in Ids, t \in Ids, k \in RelationshipType}

\* Genealogy snapshots: MaxKin people, listed eldest first, and edges of the kinds
\* Parent and Other that each lead from a person to a later one.
KinPeople == [i \in 1..MaxKin |-> Person(PersonId(i))]

KinEdges ==
    {Relationship(PersonId(p[1]), PersonId(p[2]), k) :
        p \in {q \in (1..MaxKin) \X (1..MaxKin) : q[1] < q[2]},
        k \in {Parent, Other}}

-----------------------------------------------------------------------------
(* The state machine: a resolver is constructed, then queried *)

NoQuery == [op |-> "none", personId |-> ""]

\* The resolver of the current snapshot.
resolver == RelationshipResolver(people, relationships)

\* new RelationshipResolver(people, relationships): no validation, no query yet
Init ==
    /\ people \in PeopleInputs
    /\ relationships \in SeqUpTo(AllEdges, MaxRels)
    /\ query = NoQuery
    /\ result = <<>>
    /\ log = <<>>
    /\ NothingSaved

\* resolver.getRelationshipsForPerson(personId)
GetRelationshipsForPerson(personId) ==
    /\ query' = [op |-> "getRelationshipsForPerson", personId |-> personId]
    /\ result' = getRelationshipsForPerson(resolver, personId)
    /\ UNCHANGED <<people, relationships>>

\* resolver.getSiblings(personId)
GetSiblings(personId) ==
    /\ query' = [op |-> "getSiblings", personId |-> personId]
    /\ result' = getSiblings(resolver, personId)
    /\ UNCHANGED <<people, relationships>>

\* A bug of getParents: the edges read are spliced out of this.relationships.
GetParentsConsuming(personId) ==
    /\ query' = [op |-> "getParents", personId |-> personId]
    /\ result' = getParents(resolver, personId)
    /\ relationships' =
           SelectSeq(relationships,
                     LAMBDA rel : ~ (rel.toId = personId /\ rel.type \in
                                        {Parent, AdoptiveParent, StepParent}))
    /\ UNCHANGED people

\* resolver.getParents(personId)
GetParents(personId) ==
    /\ query' = [op |-> "getParents", personId |-> personId]
    /\ result' = getParents(resolver, personId)
    /\ UNCHANGED <<people, relationships>>

\* resolver.getChildren(personId)
GetChildren(personId) ==
    /\ query' = [op |-> "getChildren", personId |-> personId]
    /\ result' = getChildren(resolver, personId)
    /\ UNCHANGED <<people, relationships>>

\* resolver.getSpouse(personId)
GetSpouse(personId) ==
    /\ query' = [op |-> "getSpouse", personId |-> personId]
    /\ result' = getSpouse(resolver, personId)
    /\ UNCHANGED <<people, relationships>>

\* new RelationshipResolver(people, relationships) over a genealogy snapshot
InitKin ==
    /\ people = KinPeople
    /\ relationships \in SeqUpTo(KinEdges, MaxKinRels)
    /\ query = NoQuery
    /\ result = <<>>
    /\ log = <<>>
    /\ NothingSaved

\* The identifiers the snapshot mentions: a query is about one of them.
MentionedIds ==
    {people[i].id : i \in 1..Len(people)}
        \cup {relationships[i].fromId : i \in 1..Len(relationships)}
        \cup {relationships[i].toId : i \in 1..Len(relationships)}

Next ==
    \/ \E personId \in MentionedIds :
           GetRelationshipsForPerson(personId) /\ UNCHANGED <<log, storage>>
    \/ \E personId \in MentionedIds : GetSiblings(personId) /\ UNCHANGED <<log, storage>>
    \/ \E personId \in MentionedIds : GetParents(personId) /\ UNCHANGED <<log, storage>>
    \/ \E personId \in MentionedIds : GetChildren(personId) /\ UNCHANGED <<log, storage>>
    \/ \E personId \in MentionedIds : GetSpouse(personId) /\ UNCHANGED <<log, storage>>

\* The first query on a fresh resolver is getRelationshipsForPerson, as where a
\* view constructs a resolver to list one person's relationships.
FirstGetRelationshipsForPerson(personId) ==
    /\ query = NoQuery
    /\ GetRelationshipsForPerson(personId)

NextKin ==
    \E personId \in MentionedIds :
        FirstGetRelationshipsForPerson(personId) /\ UNCHANGED <<log, storage>>

\* new RelationshipResolver(people, relationships) by a caller that keeps what its
\* queries return
InitLog ==
    /\ people \in PeopleInputs
    /\ relationships \in SeqUpTo(AllEdges, MaxLogRels)
    /\ query = NoQuery
    /\ result = <<>>
    /\ log = <<>>
    /\ NothingSaved

\* The caller keeps the query just issued and the value it returned.
Logged ==
    /\ Len(log) < MaxCalls
    /\ log' = Append(log, [query |-> query', result |-> result'])
    /\ UNCHANGED storage

\* Resolvers over every small snapshot: all kinds, dangling and self-referential edges.
Spec == Init /\ [][Next]_vars

\* The queries of a caller that keeps each answer.
NextLog ==
    \/ \E personId \in MentionedIds : GetRelationshipsForPerson(personId) /\ Logged
    \/ \E personId \in MentionedIds : GetSiblings(personId) /\ Logged
    \/ \E personId \in MentionedIds : GetParents(personId) /\ Logged
    \/ \E personId \in MentionedIds : GetChildren(personId) /\ Logged
    \/ \E personId \in MentionedIds : GetSpouse(personId) /\ Logged

\* One resolver queried several times in any order, each answer kept by the caller.
SpecLog == InitLog /\ [][NextLog]_vars

\* Resolvers over the same snapshots and over the larger genealogy snapshots, each
\* asked once for one person's relationships.
SpecKin == (Init \/ InitKin) /\ [][NextKin]_vars

\* The type strings of a project file, which is parsed without validation: the
\* kinds of the enumeration and other strings.
RawTypes ==
    RelationshipType \cup DerivedRelationshipType \cup ObjectPrototype
        \cup {"", "friend", "Parent"}

RawEdges == {Relationship(PersonId(1), PersonId(2), t) : t \in RawTypes}

\* A project loaded from a file: two people and edges of any type string.
InitRaw ==
    /\ people = <<Person(PersonId(1)), Person(PersonId(2))>>
    /\ relationships \in SeqUpTo(RawEdges, MaxRawRels)
    /\ query = NoQuery
    /\ result = <<>>
    /\ log = <<>>
    /\ NothingSaved

\* getRelationshipLabel(relationship)
GetRelationshipLabel(relationship) ==
    /\ query' = [op |-> "getRelationshipLabel", relationship |-> relationship]
    /\ result' = getRelationshipLabel(relationship)
    /\ UNCHANGED <<people, relationships, log, storage>>

\* isBidirectionalRelationship(type)
IsBidirectionalRelationship(type) ==
    /\ query' = [op |-> "isBidirectionalRelationship", type |-> type]
    /\ result' = isBidirectionalRelationship(type)
    /\ UNCHANGED <<people, relationships, log, storage>>

\* isParentChildRelationship(type)
IsParentChildRelationship(type) ==
    /\ query' = [op |-> "isParentChildRelationship", type |-> type]
    /\ result' = isParentChildRelationship(type)
    /\ UNCHANGED <<people, relationships, log, storage>>

\* The type strings of the edges of the snapshot.
TypesInUse == {relationships[i].type : i \in 1..Len(relationships)}

NextTaxonomy ==
    \/ \E relationship \in TypesInUse : GetRelationshipLabel(relationship)
    \/ \E type \in TypesInUse : IsBidirectionalRelationship(type)
    \/ \E type \in TypesInUse : IsParentChildRelationship(type)

\* The helpers of the taxonomy applied to the type strings of a loaded project.
SpecTaxonomy == InitRaw /\ [][NextTaxonomy]_vars

\* The application after its first effect: setProject(createNewProject())
InitApp ==
    /\ people = createNewProject.people
    /\ relationships = createNewProject.relationships
    /\ query = NoQuery
    /\ result = <<>>
    /\ log = <<>>
    /\ NothingSaved

\* The identifiers no relationship of the project has: generateId() returns one.
UnusedRelationshipIds ==
    RelationshipIds \ {relationships[i].id : i \in 1..Len(relationships)}

\* The relationship data a form can submit: an edge between two people of the
\* project.
RelationshipData ==
    {Relationship(f, t, k) :
        f \in {people[i].id : i \in 1..Len(people)},
        t \in {people[i].id : i \in 1..Len(people)},
        k \in AppTypes}

\* The add-person form is submitted: addPerson(person), person.id generated
AddPerson(person) ==
    /\ person.id \notin {people[i].id : i \in 1..Len(people)}
    /\ people' = setProject(<<addPerson(project, person)>>).people
    /\ query' = [op |-> "addPerson", personId |-> person.id]
    /\ result' = <<>>
    /\ UNCHANGED <<relationships, log, storage>>

\* A relationship form submits one relationship: addRelationship(relationshipData)
AddRelationship(relationshipData, id) ==
    /\ Len(relationships) < MaxAppRels
    /\ relationships' =
           setProject(<<addRelationship(project, relationshipData, id)>>).relationships
    /\ query' = [op |-> "addRelationship", personId |-> relationshipData.fromId]
    /\ result' = <<>>
    /\ UNCHANGED <<people, log, storage>>

\* A relationship form submits two relationships at once:
\* addRelationships(relationshipDataList)
AddRelationships(relationshipDataList, ids) ==
    /\ Len(relationships) + Len(relationshipDataList) <= MaxAppRels
    /\ ids[1] # ids[2]
    /\ relationships' =
           setProject(<<addRelationships(project, relationshipDataList, ids)>>).relationships
    /\ query' = [op |-> "addRelationships", personId |-> relationshipDataList[1].fromId]
    /\ result' = <<>>
    /\ UNCHANGED <<people, log, storage>>

\* The edit-person form is submitted: updatePerson(updatedPerson)
UpdatePerson(updatedPerson) ==
    /\ people' = setProject(<<updatePerson(project, updatedPerson)>>).people
    /\ query' = [op |-> "updatePerson", personId |-> updatedPerson.id]
    /\ result' = <<>>
    /\ UNCHANGED <<relationships, log, storage>>

\* The delete button of a relationship: deleteRelationship(relationshipId)
DeleteRelationship(relationshipId) ==
    /\ relationships' =
           setProject(<<deleteRelationship(project, relationshipId)>>).relationships
    /\ query' = [op |-> "deleteRelationship", personId |-> ""]
    /\ result' = <<>>
    /\ UNCHANGED <<people, log, storage>>

\* The delete button of a person, confirmed: handleDeletePerson(personId).  The
\* result is the sequence of relationships it passed to onDeleteRelationship.
HandleDeletePerson(personId) ==
    /\ people' = setProject(handleDeletePerson(project, personId)).people
    /\ relationships' = setProject(handleDeletePerson(project, personId)).relationships
    /\ query' = [op |-> "handleDeletePerson", personId |-> personId]
    /\ result' = relationshipsToDelete(project, personId)
    /\ UNCHANGED <<log, storage>>

NextApp ==
    \/ \E id \in Ids, displayName \in DisplayNames : AddPerson(AppPerson(id, displayName))
    \/ \E relationshipData \in RelationshipData, id \in UnusedRelationshipIds :
           AddRelationship(relationshipData, id)
    \/ \E list \in [1..2 -> RelationshipData], ids \in [1..2 -> UnusedRelationshipIds] :
           AddRelationships(list, ids)
    \/ \E id \in Ids, displayName \in DisplayNames :
           UpdatePerson(AppPerson(id, displayName))
    \/ \E relationshipId \in RelationshipIds : DeleteRelationship(relationshipId)
    \/ \E personId \in Ids : HandleDeletePerson(personId)

\* The application, from the empty project, under the events of its people tab.
SpecApp == InitApp /\ [][NextApp]_vars

\* The delete icon of the k-th card of the "Manage" list of the selected person,
\* confirmed: onDeleteRelationship(originalRelationship.id).  The result is the
\* sequence of the relationships that the project has lost.
ManageDelete(selectedPersonId, k) ==
    /\ selectedPersonId \in {people[i].id : i \in 1..Len(people)}
    /\ k \in 1..Len(manageList(project, selectedPersonId))
    /\ LET card == manageList(project, selectedPersonId)[k]
           value == deleteRelationship(project, card.originalRelationship.id)
       IN  /\ card.originalRelationship # Undefined
           /\ relationships' = setProject(<<value>>).relationships
           /\ query' = [op |-> "manageDelete", personId |-> selectedPersonId,
                        rel |-> card.rel]
           /\ result' = SelectSeq(relationships,
                                  LAMBDA r : ~ \E i \in 1..Len(value.relationships) :
                                                    value.relationships[i] = r)
    /\ UNCHANGED <<people, log, storage>>

NextManage ==
    \/ \E id \in Ids : AddPerson(AppPerson(id, "Ann"))
    \/ \E relationshipData \in RelationshipData, id \in UnusedRelationshipIds :
           AddRelationship(relationshipData, id)
    \/ \E personId \in Ids, k \in 1..MaxAppRels : ManageDelete(personId, k)

\* The people tab with a person selected: people and relationships are added, and
\* relationships are deleted from the "Manage" list.
SpecManage == InitApp /\ [][NextManage]_vars

\* The projects of a selected folder: people, and relationships between different
\* people, each with its own identifier.
SavedProjects ==
    UNION {
        LET ps == [i \in 1..n |-> AppPerson(PersonId(i), "Ann")]
            edges == {Relationship(PersonId(f), PersonId(t), k) :
                         f \in 1..n, t \in (1..n), k \in AppTypes}
        IN  {[people |-> ps,
              relationships |-> [i \in 1..Len(rs) |-> WithId(rs[i], RelationshipId(i))]] :
                rs \in {r \in SeqUpTo(edges, MaxAppRels) :
                           \A i \in 1..Len(r) : r[i].fromId # r[i].toId}}
        : n \in 1..MaxId}

\* A folder has been selected and its project loaded: the file, the backup copy
\* and the application hold the same project, and no save is under way.
InitSave ==
    /\ \E loaded \in SavedProjects :
           /\ people = loaded.people
           /\ relationships = loaded.relationships
           /\ localStorage = loaded
           /\ file = loaded
    /\ saves = <<>>
    /\ query = NoQuery
    /\ result = <<>>
    /\ log = <<>>

\* The delete button of a person, confirmed, with a folder selected:
\* handleDeletePerson(personId), every deleteRelationship and deletePerson calling
\* setProject(updatedProject) and then saveProject(updatedProject) without await.
\* Each saveProject call writes localStorage before its first await.
HandleDeletePersonAndSave(personId) ==
    /\ query = NoQuery
    /\ personId \in {people[i].id : i \in 1..Len(people)}
    /\ LET values == handleDeletePerson(project, personId)
       IN  /\ people' = setProject(values).people
           /\ relationships' = setProject(values).relationships
           /\ localStorage' = values[Len(values)]
           /\ saves' = [i \in 1..Len(values) |-> saveProject(values[i])]
    /\ query' = [op |-> "handleDeletePerson", personId |-> personId]
    /\ result' = relationshipsToDelete(project, personId)
    /\ UNCHANGED <<file, log>>

\* await getFileHandle() of the i-th saveProject call settles: the cached handle
GetFileHandle(i) ==
    /\ i \in 1..Len(saves)
    /\ saves[i].pc = "getFileHandle"
    /\ saves' = [saves EXCEPT ![i].pc = nextPc("getFileHandle")]
    /\ UNCHANGED <<people, relationships, query, result, log, localStorage, file>>

\* await fileHandle.createWritable() of the i-th call settles: a writable with a
\* temporary file of its own
CreateWritable(i) ==
    /\ i \in 1..Len(saves)
    /\ saves[i].pc = "createWritable"
    /\ saves' = [saves EXCEPT ![i].pc = nextPc("createWritable")]
    /\ UNCHANGED <<people, relationships, query, result, log, localStorage, file>>

\* await writable.write(JSON.stringify(data, null, 2)) of the i-th call settles:
\* the data is in the temporary file of that writable
Write(i) ==
    /\ i \in 1..Len(saves)
    /\ saves[i].pc = "write"
    /\ saves' = [saves EXCEPT ![i].pc = nextPc("write")]
    /\ UNCHANGED <<people, relationships, query, result, log, localStorage, file>>

\* await writable.close() of the i-th call settles: the content written through
\* that writable becomes the content of the file.
Close(i) ==
    /\ i \in 1..Len(saves)
    /\ saves[i].pc = "close"
    /\ saves' = [saves EXCEPT ![i].pc = nextPc("close")]
    /\ file' = saves[i].data
    /\ UNCHANGED <<people, relationships, query, result, log, localStorage>>

NextSave ==
    \/ \E personId \in Ids : HandleDeletePersonAndSave(personId)
    \/ \E i \in 1..(MaxAppRels + 1) : GetFileHandle(i)
    \/ \E i \in 1..(MaxAppRels + 1) : CreateWritable(i)
    \/ \E i \in 1..(MaxAppRels + 1) : Write(i)
    \/ \E i \in 1..(MaxAppRels + 1) : Close(i)

\* A person is deleted from a project that is saved to a folder; the file
\* operations of the saves that were started settle in any order.
SpecSave == InitSave /\ [][NextSave]_vars

\* The people tab with a project of people and no relationships yet.
InitForm ==
    /\ people \in {[i \in 1..n |-> AppPerson(PersonId(i), "Ann")] : n \in 0..MaxId}
    /\ relationships = <<>>
    /\ query = NoQuery
    /\ result = <<>>
    /\ log = <<>>
    /\ NothingSaved

\* The values of the person fields of the form: a person of the project, or none.
FieldIds == {people[i].id : i \in 1..Len(people)} \cup {""}

\* The values of the type field of the form: none, or one of the options offered.
FormTypes == {Parent, Spouse, Partner, AdoptiveParent, StepParent, Other}

\* The batch selections: up to MaxSelected different people of the project.
Selections ==
    {s \in SeqUpTo({people[i] : i \in 1..Len(people)}, MaxSelected) :
        \A i \in 1..Len(s), j \in 1..Len(s) : i # j => s[i] # s[j]}

\* The identifiers generateId() returns for the relationships of one submission:
\* different unused ones, in any order.
GeneratedIds ==
    {ids \in [1..Cardinality(UnusedRelationshipIds) -> UnusedRelationshipIds] :
        \A i \in DOMAIN ids, j \in DOMAIN ids : i # j => ids[i] # ids[j]}

\* The submit button of the form: handleSubmit(), and the setProject calls that
\* its callbacks make.  The result is the sequence of calls.
HandleSubmit(form, props, ids) ==
    LET calls == handleSubmit(form, props)
        values == submitted(project, calls, ids)
    IN  /\ \A c \in 1..Len(calls) :
               Len(relationships) + Len(calls[c].relationships) <= MaxAppRels
        /\ relationships' =
               IF Len(values) = 0 THEN relationships ELSE setProject(values).relationships
        /\ query' = [op |-> "handleSubmit", form |-> form, props |-> props]
        /\ result' = calls
        /\ UNCHANGED <<people, log, storage>>

\* The form opened for one person (no batch selection), one relationship submitted.
SubmitSingle ==
    \E fromId \in FieldIds, toId \in FieldIds, type \in {"", Parent, Spouse} :
        \E ids \in GeneratedIds :
            HandleSubmit(FormState(fromId, toId, type, FALSE, "", ""),
                         FormProps(<<>>, TRUE), ids)

\* The same form with "Add both parents at once" checked.
SubmitBothParents ==
    \E fromId \in FieldIds, parent1Id \in FieldIds, parent2Id \in FieldIds,
       type \in {Parent, Spouse} :
        \E ids \in GeneratedIds :
            HandleSubmit(FormState(fromId, "", type, TRUE, parent1Id, parent2Id),
                         FormProps(<<>>, TRUE), ids)

\* The form opened for a batch selection.
SubmitBatch ==
    \E selectedPeople \in Selections \ {<<>>}, toId \in FieldIds,
       type \in {"", Parent, Spouse} :
        \E ids \in GeneratedIds :
            HandleSubmit(FormState("", toId, type, FALSE, "", ""),
                         FormProps(selectedPeople, TRUE), ids)

\* The form opened for a batch selection, with "Add both parents at once" checked.
SubmitBatchBothParents ==
    \E selectedPeople \in Selections \ {<<>>}, parent1Id \in FieldIds,
       parent2Id \in FieldIds :
        \E ids \in GeneratedIds :
            HandleSubmit(FormState("", "", Parent, TRUE, parent1Id, parent2Id),
                         FormProps(selectedPeople, TRUE), ids)

\* resetForm(), at the end of a submission or when the form is opened again.
ResetForm ==
    /\ query # NoQuery
    /\ query' = NoQuery
    /\ result' = <<>>
    /\ UNCHANGED <<people, relationships, log, storage>>

\* A form is filled in and submitted after it was reset.
NextForm ==
    \/ query = NoQuery /\ SubmitSingle
    \/ query = NoQuery /\ SubmitBothParents
    \/ query = NoQuery /\ SubmitBatch
    \/ query = NoQuery /\ SubmitBatchBothParents
    \/ ResetForm

\* The people tab: relationships are added through the relationship form only.
SpecForm == InitForm /\ [][NextForm]_vars

-----------------------------------------------------------------------------
(* Vocabulary of the properties *)

\* The identifiers of the people sequence.
PeopleIds == {people[i].id : i \in 1..Len(people)}

\* s has x among its elements.
Contains(s, x) == \E i \in 1..Len(s) : s[i] = x

\* The last query was op(personId).
Asked(op, personId) == query = [op |-> op, personId |-> personId]

\* The three parent-type kinds of the data model.
ParentKinds == {Parent, AdoptiveParent, StepParent}

\* The parent-type edges fromId -> toId between people of the people sequence.
IsParentEdge(rel) ==
    /\ rel.type \in ParentKinds
    /\ rel.fromId \in PeopleIds
    /\ rel.toId \in PeopleIds

\* Some parent-type edge leads from person a to person b.
HasParentEdge(a, b) ==
    \E i \in 1..Len(relationships) :
        /\ IsParentEdge(relationships[i])
        /\ relationships[i].fromId = a
        /\ relationships[i].toId = b

-----------------------------------------------------------------------------
(* C1: symmetry of parent and child *)

\* C1 as stated: for every parent-type edge A -> B of kind k between people of the
\* people sequence, getChildren(A) contains B, getParents(B) contains A,
\* getRelationshipsForPerson(A) contains {B, Child, explicit} and
\* getRelationshipsForPerson(B) contains {A, k, explicit}.
C1_AsStated ==
    \A i \in 1..Len(relationships) :
        LET rel == relationships[i]
            A == rel.fromId
            B == rel.toId
        IN  IsParentEdge(rel) =>
                /\ Asked("getChildren", A) => Contains(result, Person(B))
                /\ Asked("getParents", B) => Contains(result, Person(A))
                /\ Asked("getRelationshipsForPerson", A) =>
                       Contains(result, Entry(Person(B), Child, FALSE))
                /\ Asked("getRelationshipsForPerson", B) =>
                       Contains(result, Entry(Person(A), rel.type, FALSE))

\* C1, amended: the same, except that the entry {A, k, explicit} in the result for B
\* is claimed only when A and B are different people (for a self-referential edge
\* only the fromId branch of the explicit pass runs, and it yields Child).
C1_ParentChildSymmetry ==
    \A i \in 1..Len(relationships) :
        LET rel == relationships[i]
            A == rel.fromId
            B == rel.toId
        IN  IsParentEdge(rel) =>
                /\ Asked("getChildren", A) => Contains(result, Person(B))
                /\ Asked("getParents", B) => Contains(result, Person(A))
                /\ Asked("getRelationshipsForPerson", A) =>
                       Contains(result, Entry(Person(B), Child, FALSE))
                /\ (A # B /\ Asked("getRelationshipsForPerson", B)) =>
                       Contains(result, Entry(Person(A), rel.type, FALSE))

\* C1's case: the child of an adoptive-parent edge between two different people has
\* been asked for its relationships, and the parent is listed with the edge's kind.
C1_Witness ==
    \E i \in 1..Len(relationships) :
        LET rel == relationships[i]
        IN  /\ IsParentEdge(rel)
            /\ rel.type = AdoptiveParent
            /\ rel.fromId # rel.toId
            /\ Asked("getRelationshipsForPerson", rel.toId)
            /\ Contains(result, Entry(Person(rel.fromId), AdoptiveParent, FALSE))

-----------------------------------------------------------------------------
(* C2: sibling symmetry *)

\* C2: for two distinct people A and B of the people sequence, B is in
\* getSiblings(A) exactly when A is in getSiblings(B); both hold whenever some
\* person P of the people sequence has parent-type edges P -> A and P -> B; and
\* getSiblings(X) never contains X itself.
C2_SiblingSymmetry ==
    \A A \in MentionedIds :
        Asked("getSiblings", A) =>
            /\ ~ Contains(result, Person(A))
            /\ A \in PeopleIds =>
                   \A B \in PeopleIds \ {A} :
                       /\ Contains(result, Person(B))
                              <=> Contains(getSiblings(resolver, B), Person(A))
                       /\ (\E P \in PeopleIds : HasParentEdge(P, A) /\ HasParentEdge(P, B))
                              => Contains(result, Person(B))

\* C2's case: getSiblings(A) has returned B, whose parent P (a third person) has
\* one parent-type edge to each of them.
C2_Witness ==
    \E A \in PeopleIds, B \in PeopleIds, P \in PeopleIds :
        /\ Cardinality({A, B, P}) = 3
        /\ HasParentEdge(P, A)
        /\ HasParentEdge(P, B)
        /\ Asked("getSiblings", A)
        /\ Contains(result, Person(B))

-----------------------------------------------------------------------------
(* C3: no parents, no siblings *)

\* C3: if getParents(A) is empty then getSiblings(A) is empty, and a person with no
\* recorded parents appears in nobody's getSiblings result; so two people that both
\* have no parents are never siblings of each other.
C3_NoParentsNoSiblings ==
    \A A \in MentionedIds :
        Asked("getSiblings", A) =>
            /\ getParents(resolver, A) = <<>> => result = <<>>
            /\ \A i \in 1..Len(result) : getParents(resolver, result[i].id) # <<>>

\* C3's case: getSiblings has been asked for a person without parents while another
\* person of the people sequence has no parents either.
C3_Witness ==
    \E A \in PeopleIds, B \in PeopleIds :
        /\ A # B
        /\ getParents(resolver, A) = <<>>
        /\ getParents(resolver, B) = <<>>
        /\ Asked("getSiblings", A)
        /\ result = <<>>

-----------------------------------------------------------------------------
(* C4: grandparent transitivity *)

\* Some edge, of any kind and direction, links the identifiers a and b.
Linked(a, b) ==
    \E i \in 1..Len(relationships) :
        {relationships[i].fromId, relationships[i].toId} = {a, b}

\* C4: given parent-type edges G -> P and P -> A between people of the people
\* sequence, getRelationshipsForPerson(A) contains {G, Grandparent, derived},
\* whatever other edges the snapshot holds.
C4_GrandparentTransitivity ==
    \A A \in PeopleIds :
        Asked("getRelationshipsForPerson", A) =>
            \A G \in PeopleIds, P \in PeopleIds :
                (HasParentEdge(G, P) /\ HasParentEdge(P, A))
                => Contains(result, Entry(Person(G), Grandparent, TRUE))

\* C4's case: three different people G, P and A with G -> P and P -> A, an explicit
\* edge between G and A besides, and G listed as derived Grandparent in the result
\* for A.
C4_Witness ==
    \E G \in PeopleIds, P \in PeopleIds, A \in PeopleIds :
        /\ Cardinality({G, P, A}) = 3
        /\ HasParentEdge(G, P)
        /\ HasParentEdge(P, A)
        /\ Linked(G, A)
        /\ Asked("getRelationshipsForPerson", A)
        /\ Contains(result, Entry(Person(G), Grandparent, TRUE))

-----------------------------------------------------------------------------
(* C5: a symmetric edge is counted once *)

\* The number of entries of s that list the person with this id under this kind.
CountEntries(s, id, kind) ==
    Cardinality({k \in 1..Len(s) : s[k].person.id = id /\ s[k].relationship = kind})

\* The positions of the Spouse edges between a and b, in either direction.
SpouseEdgesBetween(a, b) ==
    {i \in 1..Len(relationships) :
        /\ relationships[i].type = Spouse
        /\ {relationships[i].fromId, relationships[i].toId} = {a, b}}

\* C5: when exactly one Spouse edge links A and B, both of the people sequence, and
\* it is stored as A -> B, getRelationshipsForPerson(A) lists B exactly once with
\* kind Spouse and getRelationshipsForPerson(B) lists A exactly once with kind
\* Spouse, both as explicit entries.
C5_SpouseListedOnce ==
    query.op = "getRelationshipsForPerson" =>
        \A A \in PeopleIds, B \in PeopleIds :
            (/\ Cardinality(SpouseEdgesBetween(A, B)) = 1
             /\ \A i \in SpouseEdgesBetween(A, B) : relationships[i].fromId = A)
            => /\ Asked("getRelationshipsForPerson", A) =>
                      /\ CountEntries(result, B, Spouse) = 1
                      /\ Contains(result, Entry(Person(B), Spouse, FALSE))
               /\ Asked("getRelationshipsForPerson", B) =>
                      /\ CountEntries(result, A, Spouse) = 1
                      /\ Contains(result, Entry(Person(A), Spouse, FALSE))

\* C5's case: one Spouse edge A -> B between two different people, another edge
\* between the same two people, and the result for B (the toId side) lists A once
\* as Spouse.
C5_Witness ==
    \E A \in PeopleIds, B \in PeopleIds :
        /\ A # B
        /\ Cardinality(SpouseEdgesBetween(A, B)) = 1
        /\ \A i \in SpouseEdgesBetween(A, B) : relationships[i].fromId = A
        /\ Len(relationships) = 2
        /\ \A i \in 1..Len(relationships) :
               {relationships[i].fromId, relationships[i].toId} = {A, B}
        /\ Asked("getRelationshipsForPerson", B)
        /\ CountEntries(result, A, Spouse) = 1
        /\ Len(result) = 2

-----------------------------------------------------------------------------
(* C6: a sibling is listed once *)

\* C6: getRelationshipsForPerson(A) contains at most one entry of kind Sibling for
\* any person B (the person identifiers of the people sequence being unique).
C6_SiblingListedOnce ==
    \A A \in MentionedIds :
        Asked("getRelationshipsForPerson", A) =>
            \A B \in PeopleIds : CountEntries(result, B, Sibling) <= 1

\* C6's case: A and B share two different parents, an explicit Other edge links A
\* and B as well, and the result for A lists B as Sibling.
C6_Witness ==
    \E A \in PeopleIds, B \in PeopleIds, P1 \in PeopleIds, P2 \in PeopleIds :
        /\ Cardinality({A, B, P1, P2}) = 4
        /\ HasParentEdge(P1, A) /\ HasParentEdge(P1, B)
        /\ HasParentEdge(P2, A) /\ HasParentEdge(P2, B)
        /\ Linked(A, B)
        /\ Asked("getRelationshipsForPerson", A)
        /\ CountEntries(result, B, Other) = 1
        /\ CountEntries(result, B, Sibling) = 1

-----------------------------------------------------------------------------
(* C7: dangling references *)

\* The people sequence as a set.
PeopleSet == {people[i] : i \in 1..Len(people)}

\* The resolver of the snapshot without the edges that name an identifier which is
\* neither a person's nor the queried personId.
WithoutDangling(personId) ==
    RelationshipResolver(
        people,
        SelectSeq(relationships,
                  LAMBDA rel : /\ rel.fromId \in PeopleIds \cup {personId}
                               /\ rel.toId \in PeopleIds \cup {personId}))

\* C7, for the queries that return a sequence: every Person returned is an element
\* of the people sequence, and the result is the one the snapshot without its
\* dangling edges gives.
C7_SequenceQueries ==
    \A X \in MentionedIds :
        /\ Asked("getRelationshipsForPerson", X) =>
               /\ \A k \in 1..Len(result) : result[k].person \in PeopleSet
               /\ result = getRelationshipsForPerson(WithoutDangling(X), X)
        /\ Asked("getParents", X) =>
               /\ \A k \in 1..Len(result) : result[k] \in PeopleSet
               /\ result = getParents(WithoutDangling(X), X)
        /\ Asked("getChildren", X) =>
               /\ \A k \in 1..Len(result) : result[k] \in PeopleSet
               /\ result = getChildren(WithoutDangling(X), X)
        /\ Asked("getSiblings", X) =>
               /\ \A k \in 1..Len(result) : result[k] \in PeopleSet
               /\ result = getSiblings(WithoutDangling(X), X)

\* C7 as stated: every Person returned by getRelationshipsForPerson, getParents,
\* getChildren, getSiblings or getSpouse is an element of the people sequence, and
\* an edge whose counterpart is absent from people changes nothing of what the other
\* edges produce: each result is the one the snapshot without its dangling edges
\* gives.
C7_AsStated ==
    /\ C7_SequenceQueries
    /\ \A X \in MentionedIds :
           Asked("getSpouse", X) =>
               /\ result \in PeopleSet \cup {Null}
               /\ result = getSpouse(WithoutDangling(X), X)

-----------------------------------------------------------------------------
(* C8: order of the result *)

\* Edge rel, seen from personId, produces the explicit entry e.
Produces(rel, personId, e) ==
    /\ e.isDerived = FALSE
    /\ \/ /\ rel.fromId = personId
          /\ e.person.id = rel.toId
          /\ e.relationship = (IF rel.type \in ParentKinds THEN Child ELSE rel.type)
       \/ /\ rel.toId = personId
          /\ e.person.id = rel.fromId
          /\ e.relationship = rel.type

\* The entries es are produced, one after the other, by edges of increasing
\* position, the first of them at position i or later.
RECURSIVE InEdgeOrder(_, _, _)
InEdgeOrder(es, i, personId) ==
    IF es = <<>>
    THEN TRUE
    ELSE IF i > Len(relationships)
    THEN FALSE
    ELSE IF Produces(relationships[i], personId, Head(es))
    THEN InEdgeOrder(Tail(es), i + 1, personId)
    ELSE InEdgeOrder(es, i + 1, personId)

\* The explicit entries of a result, in their order.
ExplicitEntries(s) == SelectSeq(s, LAMBDA e : ~ e.isDerived)

\* C8: in the result of getRelationshipsForPerson every explicit entry precedes
\* every derived entry, and the explicit entries appear in the order in which the
\* edges that produced them occur in the relationship sequence.
C8_ExplicitFirstInEdgeOrder ==
    \A X \in MentionedIds :
        Asked("getRelationshipsForPerson", X) =>
            /\ \A i \in 1..Len(result), j \in 1..Len(result) :
                   (result[i].isDerived /\ ~ result[j].isDerived) => j < i
            /\ InEdgeOrder(ExplicitEntries(result), 1, X)

\* C8's case: a result with at least two explicit entries for different people and
\* at least one derived entry.
C8_Witness ==
    \E X \in PeopleIds :
        /\ Asked("getRelationshipsForPerson", X)
        /\ Len(result) >= 3
        /\ ~ result[1].isDerived
        /\ ~ result[2].isDerived
        /\ result[1].person # result[2].person
        /\ result[1].relationship # result[2].relationship
        /\ result[Len(result)].isDerived
        /\ X \notin {result[k].person.id : k \in 1..Len(result)}

-----------------------------------------------------------------------------
(* C9: getParents and getChildren *)

\* The positions of the parent-type edges that lead to personId from a person of the
\* people sequence, and of those that lead from personId to such a person.
ParentEdgesTo(personId) ==
    {i \in 1..Len(relationships) :
        /\ relationships[i].type \in ParentKinds
        /\ relationships[i].toId = personId
        /\ relationships[i].fromId \in PeopleIds}

ParentEdgesFrom(personId) ==
    {i \in 1..Len(relationships) :
        /\ relationships[i].type \in ParentKinds
        /\ relationships[i].fromId = personId
        /\ relationships[i].toId \in PeopleIds}

\* The rank of position i among the positions S.
Rank(S, i) == Cardinality({j \in S : j <= i})

\* The snapshot of the end-to-end scenario: people p1, p2 and c1 (the third
\* identifier), with the edges p1 -> c1 and p2 -> c1 of kind Parent and no others.
ScenarioP1 == PersonId(1)
ScenarioP2 == PersonId(2)
ScenarioC1 == PersonId(3)

IsScenario ==
    /\ people = <<Person(ScenarioP1), Person(ScenarioP2), Person(ScenarioC1)>>
    /\ relationships = <<Relationship(ScenarioP1, ScenarioC1, Parent),
                         Relationship(ScenarioP2, ScenarioC1, Parent)>>

\* C9: getParents(X) returns, in the order of the relationship sequence, one Person
\* per parent-type edge to X whose fromId is in people, and getChildren(X) likewise
\* for the edges from X; so in the scenario getParents(c1) = [p1, p2],
\* getSiblings(c1) is empty and getRelationshipsForPerson(p1) contains
\* {c1, Child, explicit}.
C9_ParentsAndChildrenInEdgeOrder ==
    /\ \A X \in MentionedIds :
           /\ Asked("getParents", X) =>
                  /\ Len(result) = Cardinality(ParentEdgesTo(X))
                  /\ \A i \in ParentEdgesTo(X) :
                         result[Rank(ParentEdgesTo(X), i)] = Person(relationships[i].fromId)
           /\ Asked("getChildren", X) =>
                  /\ Len(result) = Cardinality(ParentEdgesFrom(X))
                  /\ \A i \in ParentEdgesFrom(X) :
                         result[Rank(ParentEdgesFrom(X), i)] = Person(relationships[i].toId)
    /\ IsScenario =>
           /\ Asked("getParents", ScenarioC1) =>
                  result = <<Person(ScenarioP1), Person(ScenarioP2)>>
           /\ Asked("getSiblings", ScenarioC1) => result = <<>>
           /\ Asked("getRelationshipsForPerson", ScenarioP1) =>
                  Contains(result, Entry(Person(ScenarioC1), Child, FALSE))

\* C9's case: getParents(c1) has been asked in the scenario and returned [p1, p2].
C9_Witness ==
    /\ IsScenario
    /\ Asked("getParents", ScenarioC1)
    /\ result = <<Person(ScenarioP1), Person(ScenarioP2)>>

-----------------------------------------------------------------------------
(* C10: getSpouse *)

\* The positions of the Spouse and Partner edges that touch personId.
SpouseEdgesOf(personId) ==
    {i \in 1..Len(relationships) :
        /\ relationships[i].type \in {Spouse, Partner}
        /\ relationships[i].fromId = personId \/ relationships[i].toId = personId}

\* The other endpoint of the edge at position i, seen from personId.
Counterpart(i, personId) ==
    IF relationships[i].fromId = personId
    THEN relationships[i].toId
    ELSE relationships[i].fromId

\* The first of a non-empty set of positions.
First(S) == CHOOSE i \in S : \A j \in S : i <= j

\* C10: getSpouse(X) returns at most one person, the counterpart of the first
\* Spouse or Partner edge that touches X (when that counterpart is in people, it is
\* the person returned); the later such edges are ignored; and the result is none
\* when no such edge exists.
C10_FirstSpouseWins ==
    \A X \in MentionedIds :
        Asked("getSpouse", X) =>
            IF SpouseEdgesOf(X) = {}
            THEN result = Null
            ELSE LET c == Counterpart(First(SpouseEdgesOf(X)), X)
                 IN  /\ result # Null => result = Person(c)
                     /\ c \in PeopleIds => result = Person(c)

\* C10's case: two Spouse or Partner edges touch X, with different counterparts that
\* are both in people, and getSpouse(X) has returned the counterpart of the first.
C10_Witness ==
    \E X \in PeopleIds :
        /\ Cardinality(SpouseEdgesOf(X)) = 2
        /\ \A i \in SpouseEdgesOf(X) : Counterpart(i, X) \in PeopleIds \ {X}
        /\ \E i \in SpouseEdgesOf(X), j \in SpouseEdgesOf(X) :
               Counterpart(i, X) # Counterpart(j, X)
        /\ Asked("getSpouse", X)
        /\ result = Person(Counterpart(First(SpouseEdgesOf(X)), X))

-----------------------------------------------------------------------------
(* C11: a personId that names no person *)

\* The positions of the edges that mention personId and whose other endpoint is a
\* person of the people sequence.
EdgesWithCounterpart(personId) ==
    {i \in 1..Len(relationships) :
        /\ relationships[i].fromId = personId \/ relationships[i].toId = personId
        /\ Counterpart(i, personId) \in PeopleIds}

\* The value a query returns is a well-formed one: a sequence of entries, a
\* sequence of people, or one person or null.
Completed ==
    CASE query.op = "getRelationshipsForPerson" ->
             \A k \in 1..Len(result) :
                 /\ result[k].person \in PeopleSet
                 /\ result[k].relationship \in RelationshipType \cup DerivedRelationshipType
                 /\ result[k].isDerived \in BOOLEAN
      [] query.op \in {"getSiblings", "getParents", "getChildren"} ->
             \A k \in 1..Len(result) : result[k] \in PeopleSet
      [] query.op = "getSpouse" -> result \in PeopleSet \cup {Null}
      [] OTHER -> TRUE

\* C11: for a personId X that is not in the people sequence every query completes,
\* and getRelationshipsForPerson(X) has an explicit entry for every edge that
\* mentions X and whose counterpart is in people, and no other explicit entry.
C11_AbsentPersonId ==
    \A X \in MentionedIds \ PeopleIds :
        /\ query.personId = X => Completed
        /\ Asked("getRelationshipsForPerson", X) =>
               /\ \A i \in EdgesWithCounterpart(X) :
                      \E k \in 1..Len(result) :
                          /\ Produces(relationships[i], X, result[k])
                          /\ result[k].person = Person(Counterpart(i, X))
               /\ \A k \in 1..Len(result) :
                      ~ result[k].isDerived =>
                          \E i \in EdgesWithCounterpart(X) :
                              Produces(relationships[i], X, result[k])

\* C11's case: X names no person, one edge leads from X to a person and another
\* from a person to X, and the result for X lists both counterparts.
C11_Witness ==
    \E X \in MentionedIds \ PeopleIds :
        /\ Asked("getRelationshipsForPerson", X)
        /\ Len(relationships) = 2
        /\ relationships[1].fromId = X /\ relationships[1].toId \in PeopleIds
        /\ relationships[2].toId = X /\ relationships[2].fromId \in PeopleIds
        /\ relationships[1].type \in ParentKinds
        /\ Len(ExplicitEntries(result)) = 2
        /\ result[1].relationship = Child

-----------------------------------------------------------------------------
(* C12: queries have no effect *)

\* Whenever the caller issued the same query twice, it got the same value.
SameAnswers ==
    \A i \in 1..Len(log), j \in 1..Len(log) :
        log[i].query = log[j].query => log[i].result = log[j].result

\* C12: no query changes the people sequence, the relationship sequence or a
\* Person, and a query repeated on the same resolver, in any order and with any
\* other queries in between, returns the value it returned before.
C12_QueriesHaveNoEffect ==
    /\ []SameAnswers
    /\ [][people' = people /\ relationships' = relationships]_vars

\* C12's case: getParents returned a parent, then getChildren on the same resolver
\* returned a child, then the first query was issued again.
C12_Witness ==
    /\ Len(log) = 3
    /\ log[1].query = log[3].query
    /\ log[2].query # log[1].query
    /\ log[1].query.op = "getParents" /\ Len(log[1].result) > 0
    /\ log[2].query.op = "getChildren" /\ Len(log[2].result) > 0
    /\ log[3].result = log[1].result

-----------------------------------------------------------------------------
(* C13: which kinds are derived *)

\* The derived kinds that the taxonomy declares and the resolver never computes.
NeverComputed ==
    {"uncle", "aunt", "nephew", "niece", "cousin", "parent-in-law", "child-in-law",
     "sibling-in-law", "step-sibling"}

\* C13: every edge type being one of the eight explicit kinds, an entry of a result
\* of getRelationshipsForPerson has isDerived = true exactly when its kind is
\* Sibling, Grandparent or Grandchild; a Child entry has isDerived = false; and no
\* entry has one of the kinds Uncle, Aunt, Nephew, Niece, Cousin, ParentInLaw,
\* ChildInLaw, SiblingInLaw, StepSibling.
C13_DerivedKinds ==
    (/\ query.op = "getRelationshipsForPerson"
     /\ \A i \in 1..Len(relationships) : relationships[i].type \in RelationshipType)
    => \A k \in 1..Len(result) :
           /\ result[k].isDerived <=>
                  result[k].relationship \in {Sibling, Grandparent, Grandchild}
           /\ result[k].relationship = Child => ~ result[k].isDerived
           /\ result[k].relationship \notin NeverComputed

\* C13's case: in a snapshot without self-referential edges, one result with an
\* explicit Child entry, a derived Sibling entry and a derived Grandparent entry.
C13_Witness ==
    /\ query.op = "getRelationshipsForPerson"
    /\ \A i \in 1..Len(relationships) : relationships[i].fromId # relationships[i].toId
    /\ \E k \in 1..Len(result) :
           result[k].relationship = Child /\ ~ result[k].isDerived
    /\ \E k \in 1..Len(result) :
           result[k].relationship = Sibling /\ result[k].isDerived
    /\ \E k \in 1..Len(result) :
           result[k].relationship = Grandparent /\ result[k].isDerived

-----------------------------------------------------------------------------
(* C14: the two classes of explicit kinds *)

\* C14: over the eight explicit kinds, isBidirectionalRelationship(k) is true
\* exactly for Spouse, Partner and Other, and isParentChildRelationship(k) is true
\* exactly for Parent, AdoptiveParent and StepParent; no kind satisfies both, and
\* Guardian and Godparent satisfy neither.
C14_KindClasses ==
    \A k \in RelationshipType :
        /\ query = [op |-> "isBidirectionalRelationship", type |-> k] =>
               /\ result <=> k \in {Spouse, Partner, Other}
               /\ result => ~ isParentChildRelationship(k)
               /\ k \in {Guardian, Godparent} => ~ result
        /\ query = [op |-> "isParentChildRelationship", type |-> k] =>
               /\ result <=> k \in {Parent, AdoptiveParent, StepParent}
               /\ result => ~ isBidirectionalRelationship(k)
               /\ k \in {Guardian, Godparent} => ~ result

\* C14's case: isParentChildRelationship has been applied to Guardian, the type of
\* an edge of the project, and returned false.
C14_Witness ==
    /\ query = [op |-> "isParentChildRelationship", type |-> Guardian]
    /\ result = FALSE
    /\ ~ isBidirectionalRelationship(Guardian)

-----------------------------------------------------------------------------
(* C15: labels *)

\* C15, for the kinds of the enumeration: getRelationshipLabel returns a non-empty
\* string for each of the 8 explicit and the 13 derived kinds.
C15_LabelsOfTheEnumeration ==
    \A k \in RelationshipType \cup DerivedRelationshipType :
        query = [op |-> "getRelationshipLabel", relationship |-> k] =>
            /\ result.type = "string"
            /\ result.value # ""
            /\ result = JSString(labels[k])

\* C15 as stated: getRelationshipLabel returns a fixed, non-empty label for each of
\* the 8 explicit and 13 derived kinds of the enumeration, and for a value outside
\* the enumeration it returns the raw value unchanged.
C15_AsStated ==
    /\ C15_LabelsOfTheEnumeration
    /\ \A raw \in RawTypes \ (RelationshipType \cup DerivedRelationshipType) :
           query = [op |-> "getRelationshipLabel", relationship |-> raw] =>
               result = JSString(raw)

-----------------------------------------------------------------------------
(* C16: referential integrity of the application state *)

\* Every relationship of the project leads from a person of the project to a person
\* of the project.
ReferentialIntegrity ==
    \A i \in 1..Len(relationships) :
        /\ relationships[i].fromId \in PeopleIds
        /\ relationships[i].toId \in PeopleIds

\* A step that deletes person X removes X and every relationship with fromId = X or
\* toId = X, and leaves the other people and relationships as they were, in order.
DeletePersonCascades ==
    query'.op = "handleDeletePerson" =>
        LET X == query'.personId
        IN  /\ people' = SelectSeq(people, LAMBDA p : p.id # X)
            /\ relationships' =
                   SelectSeq(relationships, LAMBDA r : r.fromId # X /\ r.toId # X)
            /\ \A i \in 1..Len(relationships') :
                   relationships'[i].fromId # X /\ relationships'[i].toId # X

\* C16: from a project with referential integrity, after any sequence of addPerson,
\* addRelationship(s) between existing people, updatePerson, deleteRelationship and
\* deletePerson, no relationship references a person absent from people; and
\* deletePerson(X) removes every relationship with fromId = X or toId = X and leaves
\* all other people and relationships unchanged.
C16_ReferentialIntegrity ==
    /\ []ReferentialIntegrity
    /\ [][DeletePersonCascades]_vars

\* C16's case: a person with a relationship has been deleted, and a relationship
\* between two other people is still there.
C16_Witness ==
    /\ query.op = "handleDeletePerson"
    /\ Len(result) >= 1
    /\ Len(relationships) >= 1
    /\ Len(people) >= 2
    /\ ReferentialIntegrity

-----------------------------------------------------------------------------
(* C17: the form emits no self-referential edge *)

\* The relationships the calls of a submission pass on, in order.
Emitted(calls) == Flatten([c \in 1..Len(calls) |-> calls[c].relationships])

\* C17: every relationship emitted by handleSubmit, in each of its four modes, has
\* fromId different from toId; so from a project without self-referential edges,
\* adding relationships through the form only never creates one.
C17_NoSelfEdgeFromForm ==
    /\ query.op = "handleSubmit" =>
           \A k \in 1..Len(Emitted(result)) :
               Emitted(result)[k].fromId # Emitted(result)[k].toId
    /\ \A i \in 1..Len(relationships) :
           relationships[i].fromId # relationships[i].toId

\* C17's case: a batch submission with both parents in which one of the selected
\* people is one of the parents chosen: relationships are emitted for the other
\* selected person only.
C17_Witness ==
    /\ query.op = "handleSubmit"
    /\ Len(query.props.selectedPeople) = 2
    /\ query.form.addBothParents
    /\ \E i \in 1..2 : query.props.selectedPeople[i].id = query.form.parent1Id
    /\ Len(Emitted(result)) = 2
    /\ Len(relationships) = 2

-----------------------------------------------------------------------------
(* C18: symmetric kinds in the explicit pass *)

\* The symmetric kinds of the data model.
SymmetricKinds == {Spouse, Partner, Other}

\* The number of explicit entries of s that list the person with this id under this
\* kind.
CountExplicit(s, id, kind) ==
    Cardinality({n \in 1..Len(s) :
        s[n].person.id = id /\ s[n].relationship = kind /\ ~ s[n].isDerived})

\* C18 as stated, for snapshots without self-referential edges: in
\* getRelationshipsForPerson(X), for every symmetric kind k and counterpart Y, at
\* most one explicit entry {Y, k} appears, whichever endpoint of each stored edge
\* is fromId and in whatever order the edges are stored; so two edges X -> Y and
\* Y -> X of kind k yield one entry in the result for X and one in the result for Y.
C18_AsStated ==
    \A X \in MentionedIds :
        (/\ Asked("getRelationshipsForPerson", X)
         /\ \A i \in 1..Len(relationships) :
                relationships[i].fromId # relationships[i].toId)
        => \A Y \in PeopleIds, k \in SymmetricKinds : CountExplicit(result, Y, k) <= 1

-----------------------------------------------------------------------------
(* C19: what the explicit pass appends *)

\* The edge at position i touches personId and its counterpart is a person.
Matches(i, personId) ==
    /\ relationships[i].fromId = personId \/ relationships[i].toId = personId
    /\ Counterpart(i, personId) \in PeopleIds

\* The edge at position i is of a symmetric kind, has personId as its toId only, and
\* an earlier matching edge has the same counterpart and the same kind.
Deduplicated(i, personId) ==
    /\ Matches(i, personId)
    /\ relationships[i].type \in SymmetricKinds
    /\ relationships[i].toId = personId
    /\ relationships[i].fromId # personId
    /\ \E j \in 1..(i - 1) :
           /\ Matches(j, personId)
           /\ relationships[j].type = relationships[i].type
           /\ Counterpart(j, personId) = Counterpart(i, personId)

\* The positions of the edges that append an entry, in order.
Appending(personId) ==
    SelectSeq([i \in 1..Len(relationships) |-> i],
              LAMBDA i : Matches(i, personId) /\ ~ Deduplicated(i, personId))

\* The entry the edge at position i appends, seen from personId.
EntryOf(i, personId) ==
    Entry(find(people, Counterpart(i, personId)),
          IF relationships[i].fromId = personId /\ relationships[i].type \in ParentKinds
          THEN Child
          ELSE relationships[i].type,
          FALSE)

\* C19: in the explicit pass of getRelationshipsForPerson(X), each edge touching X
\* whose counterpart is in people appends exactly one entry with isDerived = false,
\* except that an edge of kind Spouse, Partner or Other in which X is the toId
\* appends nothing when an earlier explicit entry lists the same counterpart with
\* the same kind; no other edge is de-duplicated.
C19_ExplicitPass ==
    \A X \in MentionedIds :
        Asked("getRelationshipsForPerson", X) =>
            ExplicitEntries(result) =
                [n \in 1..Len(Appending(X)) |-> EntryOf(Appending(X)[n], X)]

\* C19's case: two Parent edges P -> X have given two Parent entries, and of two
\* Other edges A -> X the second has given none.
C19_Witness ==
    \E X \in PeopleIds, P \in PeopleIds, A \in PeopleIds :
        /\ Asked("getRelationshipsForPerson", X)
        /\ Cardinality({X, P, A}) = 3
        /\ CountExplicit(result, P, Parent) = 2
        /\ CountExplicit(result, A, Other) = 1
        /\ \E i \in 1..Len(relationships) : Deduplicated(i, X) /\ Counterpart(i, X) = A

-----------------------------------------------------------------------------
(* C20: a grandparent reached twice *)

\* C20 as stated, for snapshots without self-referential edges: in
\* getRelationshipsForPerson(X), a grandparent G is listed at most once with kind
\* Grandparent, also when G is reachable through two different parents of X or
\* through two parent-type edges between the same pair of people.
C20_AsStated ==
    \A X \in MentionedIds :
        (/\ Asked("getRelationshipsForPerson", X)
         /\ \A i \in 1..Len(relationships) :
                relationships[i].fromId # relationships[i].toId)
        => \A G \in PeopleIds : CountEntries(result, G, Grandparent) <= 1

-----------------------------------------------------------------------------
(* C21: grandchildren are never suppressed *)

\* The pairs of positions <<i, j>> of parent-type edges X -> C and C -> GC, with C
\* and GC in the people sequence.
GrandchildPaths(X, GC) ==
    {p \in (1..Len(relationships)) \X (1..Len(relationships)) :
        /\ relationships[p[1]].type \in ParentKinds
        /\ relationships[p[2]].type \in ParentKinds
        /\ relationships[p[1]].fromId = X
        /\ relationships[p[1]].toId \in PeopleIds
        /\ relationships[p[2]].fromId = relationships[p[1]].toId
        /\ relationships[p[2]].toId = GC
        /\ GC \in PeopleIds}

\* C21: in getRelationshipsForPerson(X), the number of Grandchild entries for a
\* person GC equals the number of pairs of parent-type edges (X -> C, C -> GC)
\* with C and GC in people: no suppression is applied.
C21_GrandchildPerPath ==
    \A X \in MentionedIds :
        Asked("getRelationshipsForPerson", X) =>
            \A GC \in PeopleIds :
                CountEntries(result, GC, Grandchild)
                    = Cardinality(GrandchildPaths(X, GC))

\* C21's case: X has two different children who are both parents of GC, and the
\* result for X lists GC twice as Grandchild.
C21_Witness ==
    \E X \in PeopleIds, C1 \in PeopleIds, C2 \in PeopleIds, GC \in PeopleIds :
        /\ Cardinality({X, C1, C2, GC}) = 4
        /\ HasParentEdge(X, C1) /\ HasParentEdge(X, C2)
        /\ HasParentEdge(C1, GC) /\ HasParentEdge(C2, GC)
        /\ Asked("getRelationshipsForPerson", X)
        /\ CountEntries(result, GC, Grandchild) = 2

-----------------------------------------------------------------------------
(* C22: the suppression key of the siblings never matches *)

\* The entries of s of kind Sibling, in order.
SiblingEntries(s) == SelectSeq(s, LAMBDA e : e.relationship = Sibling)

\* C22: every edge type being one of the eight explicit kinds, the Sibling entries
\* of getRelationshipsForPerson(X) are exactly the elements of getSiblings(X), one
\* derived entry each and in the same order, whatever explicit edges also link X
\* to a sibling.
C22_SiblingsNeverSuppressed ==
    \A X \in MentionedIds :
        Asked("getRelationshipsForPerson", X) =>
            SiblingEntries(result) = derivedEntries(getSiblings(resolver, X), Sibling)

\* C22's case: X, S1 and S2 are three children of P, an explicit Other edge links
\* X and S1 as well, and the result for X lists both S1 and S2 as Sibling.
C22_Witness ==
    \E X \in PeopleIds, S1 \in PeopleIds, S2 \in PeopleIds, P \in PeopleIds :
        /\ Cardinality({X, S1, S2, P}) = 4
        /\ HasParentEdge(P, X) /\ HasParentEdge(P, S1) /\ HasParentEdge(P, S2)
        /\ \E i \in 1..Len(relationships) :
               /\ relationships[i].type = Other
               /\ {relationships[i].fromId, relationships[i].toId} = {X, S1}
        /\ Asked("getRelationshipsForPerson", X)
        /\ Len(SiblingEntries(result)) = 2
        /\ Contains(result, Entry(Person(S1), Other, FALSE))
        /\ Contains(result, Entry(Person(S1), Sibling, TRUE))

-----------------------------------------------------------------------------
(* C23: the order of the derived siblings *)

\* The position of the first parent-type edge that points to the person S.
FirstParentEdgeTo(S) == First(ParentEdgesTo(S))

\* The position in s of the first Sibling entry for the person S.
SiblingPosition(s, S) ==
    First({k \in 1..Len(s) : s[k].person.id = S /\ s[k].relationship = Sibling})

\* C23 as stated: if the first parent-type edge pointing to sibling S1 precedes the
\* first parent-type edge pointing to sibling S2 in the relationship sequence, S1
\* is listed before S2 in getRelationshipsForPerson(X), whatever the order of S1
\* and S2 in the people sequence.
C23_AsStated ==
    \A X \in MentionedIds :
        Asked("getRelationshipsForPerson", X) =>
            \A S1 \in PeopleIds, S2 \in PeopleIds :
                (/\ CountEntries(result, S1, Sibling) > 0
                 /\ CountEntries(result, S2, Sibling) > 0
                 /\ FirstParentEdgeTo(S1) < FirstParentEdgeTo(S2))
                => SiblingPosition(result, S1) < SiblingPosition(result, S2)

-----------------------------------------------------------------------------
(* C24: getSpouse behind a dangling edge *)

\* C24 as stated, for snapshots without self-referential edges: getSpouse(X)
\* returns a person whenever at least one Spouse or Partner edge touching X has its
\* counterpart in the people sequence, also when an earlier Spouse or Partner edge
\* touching X references a person absent from people.
C24_AsStated ==
    \A X \in MentionedIds :
        (/\ Asked("getSpouse", X)
         /\ \A i \in 1..Len(relationships) :
                relationships[i].fromId # relationships[i].toId
         /\ \E i \in SpouseEdgesOf(X) : Counterpart(i, X) \in PeopleIds)
        => result # Null

-----------------------------------------------------------------------------
(* C25: self-referential edges *)

\* The positions of the edges X -> X whose kind is in the set kinds.
SelfEdges(X, kinds) ==
    {i \in 1..Len(relationships) :
        /\ relationships[i].fromId = X
        /\ relationships[i].toId = X
        /\ relationships[i].type \in kinds}

-----------------------------------------------------------------------------
(* C26: a parent that is in no person record *)

\* Some parent-type edge leads from the identifier a to the identifier b, whether or
\* not they name people.
ParentTypeEdge(a, b) ==
    \E i \in 1..Len(relationships) :
        /\ relationships[i].type \in ParentKinds
        /\ relationships[i].fromId = a
        /\ relationships[i].toId = b

\* a reaches b over two parent-type edges through a person of the people sequence.
TwoStepsThroughPerson(a, b) ==
    \E Q \in PeopleIds : ParentTypeEdge(a, Q) /\ ParentTypeEdge(Q, b)

\* C26: a parent id that parent-type edges reference but that is absent from the
\* people sequence takes no part in inference: the people in getSiblings(X) share
\* with X a parent that is in people, a Grandparent of X is a parent of a parent of
\* X that is in people, and a Grandchild of X is a child of a child of X that is in
\* people.
C26_AbsentParentInfersNothing ==
    \A X \in MentionedIds :
        /\ Asked("getSiblings", X) =>
               \A k \in 1..Len(result) :
                   \E Q \in PeopleIds :
                       ParentTypeEdge(Q, X) /\ ParentTypeEdge(Q, result[k].id)
        /\ Asked("getRelationshipsForPerson", X) =>
               \A k \in 1..Len(result) :
                   /\ result[k].relationship = Sibling =>
                          \E Q \in PeopleIds :
                              /\ ParentTypeEdge(Q, X)
                              /\ ParentTypeEdge(Q, result[k].person.id)
                   /\ result[k].relationship = Grandparent =>
                          TwoStepsThroughPerson(result[k].person.id, X)
                   /\ result[k].relationship = Grandchild =>
                          TwoStepsThroughPerson(X, result[k].person.id)

\* C26's case: G -> P and P -> X are parent-type edges, G and X are people and P is
\* not, and the result for X lists nobody as Grandparent.
C26_Witness ==
    \E G \in PeopleIds, X \in PeopleIds, P \in Ids \ PeopleIds :
        /\ G # X
        /\ ParentTypeEdge(G, P)
        /\ ParentTypeEdge(P, X)
        /\ Asked("getRelationshipsForPerson", X)
        /\ result = <<>>

-----------------------------------------------------------------------------
(* C27: the resolver's classification of kinds and the taxonomy predicates *)

\* The positions of the edges X -> Y of kind k.
EdgesFromTo(X, Y, k) ==
    {i \in 1..Len(relationships) :
        /\ relationships[i].fromId = X
        /\ relationships[i].toId = Y
        /\ relationships[i].type = k}

\* The positions of the edges X -> Y whose kind the taxonomy calls parent-child.
ParentChildEdges(X, Y) ==
    UNION {EdgesFromTo(X, Y, k) : k \in {t \in RelationshipType : isParentChildRelationship(t)}}

\* The edges Y -> X of kind k, Y other than X, that follow an edge of kind k between
\* X and Y: the ones a to-side de-duplication of kind k would drop.
Repeats(X, Y, k) ==
    IF X = Y
    THEN {}
    ELSE {i \in EdgesFromTo(Y, X, k) :
             \E j \in EdgesFromTo(X, Y, k) \cup EdgesFromTo(Y, X, k) : j < i}

\* C27: the resolver's classification of the eight explicit kinds agrees with the
\* taxonomy predicates: an edge is shown as Child on the from-side, counted by
\* getParents and getChildren and used to infer siblings, grandparents and
\* grandchildren if and only if isParentChildRelationship(type), and it is subject
\* to the to-side de-duplication if and only if isBidirectionalRelationship(type).
C27_ClassificationAgrees ==
    \A X \in MentionedIds :
        /\ Asked("getRelationshipsForPerson", X) =>
               \A Y \in PeopleIds :
                   /\ CountExplicit(result, Y, Child)
                          = Cardinality(ParentChildEdges(X, Y))
                   /\ \A k \in RelationshipType :
                          CountExplicit(result, Y, k)
                              = (IF isParentChildRelationship(k)
                                 THEN 0
                                 ELSE Cardinality(EdgesFromTo(X, Y, k)))
                                + (IF X = Y THEN 0 ELSE Cardinality(EdgesFromTo(Y, X, k)))
                                - (IF isBidirectionalRelationship(k)
                                   THEN Cardinality(Repeats(X, Y, k))
                                   ELSE 0)
                   /\ CountEntries(result, Y, Sibling) > 0 <=>
                          /\ Y # X
                          /\ \E Q \in PeopleIds :
                                 /\ ParentChildEdges(Q, X) # {}
                                 /\ ParentChildEdges(Q, Y) # {}
                   /\ CountEntries(result, Y, Grandparent) > 0 <=>
                          \E Q \in PeopleIds :
                              /\ ParentChildEdges(Y, Q) # {}
                              /\ ParentChildEdges(Q, X) # {}
                   /\ CountEntries(result, Y, Grandchild) > 0 <=>
                          \E Q \in PeopleIds :
                              /\ ParentChildEdges(X, Q) # {}
                              /\ ParentChildEdges(Q, Y) # {}
        /\ Asked("getParents", X) =>
               \A Y \in PeopleIds :
                   Cardinality({n \in 1..Len(result) : result[n].id = Y})
                       = Cardinality(ParentChildEdges(Y, X))
        /\ Asked("getChildren", X) =>
               \A Y \in PeopleIds :
                   Cardinality({n \in 1..Len(result) : result[n].id = Y})
                       = Cardinality(ParentChildEdges(X, Y))

\* C27's case: two Guardian edges Y -> X, a kind that neither predicate accepts: the
\* result for X lists Y twice as Guardian, nothing being re-expressed, inferred or
\* de-duplicated.
C27_Witness ==
    \E X \in PeopleIds, Y \in PeopleIds :
        /\ X # Y
        /\ ~ isParentChildRelationship(Guardian)
        /\ ~ isBidirectionalRelationship(Guardian)
        /\ Cardinality(EdgesFromTo(Y, X, Guardian)) = 2
        /\ Asked("getRelationshipsForPerson", X)
        /\ CountExplicit(result, Y, Guardian) = 2
        /\ Len(result) = 2

-----------------------------------------------------------------------------
(* C28: the direction of the edges the form emits *)

\* The people a submission is about: the batch selection, or the 'From Person'.
Subjects(form, props) ==
    IF Len(props.selectedPeople) > 0
    THEN {props.selectedPeople[i].id : i \in 1..Len(props.selectedPeople)}
    ELSE {form.fromId}

\* The people chosen as parent: 'Parent 1' and 'Parent 2' when both parents are
\* added at once, the 'To Person' otherwise.
ChosenParents(form) ==
    IF form.addBothParents THEN {form.parent1Id, form.parent2Id} ELSE {form.toId}

\* C28: in every mode of handleSubmit, an emitted edge of a parent-type kind has
\* the person chosen as parent ('To Person', 'Parent 1' or 'Parent 2') as fromId
\* and the 'From Person' or a batch-selected person as toId, and an emitted edge of
\* any other kind has the 'From Person' or a batch-selected person as fromId and
\* the 'To Person' as toId.
C28_DirectionOfEmittedEdges ==
    query.op = "handleSubmit" =>
        \A k \in 1..Len(Emitted(result)) :
            LET e == Emitted(result)[k]
            IN  /\ e.type = query.form.type
                /\ IF e.type \in ParentKinds
                   THEN /\ e.fromId \in ChosenParents(query.form)
                        /\ e.toId \in Subjects(query.form, query.props)
                   ELSE /\ e.fromId \in Subjects(query.form, query.props)
                        /\ e.toId = query.form.toId

\* C28's case: a batch submission of kind Parent for two selected people and a
\* third person as 'To Person': two edges are emitted, both from the 'To Person'.
C28_Witness ==
    /\ query.op = "handleSubmit"
    /\ Len(query.props.selectedPeople) = 2
    /\ ~ query.form.addBothParents
    /\ query.form.type = Parent
    /\ Len(Emitted(result)) = 2
    /\ \A k \in 1..2 : Emitted(result)[k].fromId = query.form.toId
    /\ Emitted(result)[1].toId # Emitted(result)[2].toId
    /\ Len(relationships) = 2

-----------------------------------------------------------------------------
(* C29: the delete action of the "Manage" list *)

\* The kind under which the stored edge r is listed for the person X.
KindSeenFrom(r, X) ==
    IF r.fromId = X /\ r.type \in ParentKinds THEN Child ELSE r.type

\* C29 as stated, for projects without self-referential edges: the delete action
\* shown for an explicit entry {person, kind} of the selected person removes the
\* stored edge that produced that entry, one edge of the corresponding kind between
\* the two people, also when several edges of different kinds connect the same two
\* people.
C29_AsStated ==
    (/\ query.op = "manageDelete"
     /\ \A i \in 1..Len(result) : result[i].fromId # result[i].toId
     /\ \A i \in 1..Len(relationships) :
            relationships[i].fromId # relationships[i].toId) =>
        /\ Len(result) = 1
        /\ {result[1].fromId, result[1].toId} = {query.personId, query.rel.person.id}
        /\ KindSeenFrom(result[1], query.personId) = query.rel.relationship

-----------------------------------------------------------------------------
(* C30: the saves of a person's deletion *)

\* Every saveProject call that was started has settled.
AllSettled == \A i \in 1..Len(saves) : saves[i].pc = "done"

\* C30 as stated: when a person with k >= 1 relationships is deleted through
\* handleDeletePerson, k + 1 saveProject calls are started without being awaited;
\* once all of them have settled, the content of the project file equals the final
\* in-memory project, in which the person and all of their relationships are
\* removed, whatever the interleaving of the file writes.
C30_AsStated ==
    (query.op = "handleDeletePerson" /\ Len(result) >= 1) =>
        /\ Len(saves) = Len(result) + 1
        /\ query.personId \notin PeopleIds
        /\ \A i \in 1..Len(relationships) :
               query.personId \notin {relationships[i].fromId, relationships[i].toId}
        /\ AllSettled => file = project

=============================================================================
